---- MODULE Spec2Model ----
(***************************************************************************)
(* Schedule resolution engine of the timetable application                *)
(* (src/api.js: class TimetableAPI and class TimetableApp).               *)
(*                                                                         *)
(* Conventions                                                             *)
(*  - A JavaScript value that may be null/undefined is a tuple: <<>> for   *)
(*    null/undefined, <<v>> for the value v.                               *)
(*  - A wall-clock string "HH:MM" is the sequence of its five characters,  *)
(*    so that the string comparisons of the source (>=, <=, >,             *)
(*    localeCompare) are lexicographic comparisons here.                   *)
(*  - A date string "YYYY-MM-DD" is the tuple <<YYYY, MM, DD>> of its      *)
(*    three fields; a Date object is [day |-> days since 1970-01-01 in     *)
(*    local time, ms |-> milliseconds since local midnight], or            *)
(*    InvalidDate.                                                         *)
(*  - Localised literals are written in ASCII; the comment next to each    *)
(*    names the literal of the source.                                     *)
(***************************************************************************)
EXTENDS Integers, Sequences, FiniteSets, TLC

VARIABLES
    DAY_ROTATION,      \* window.DAY_ROTATION: date string -> day cycle
    SPECIAL_DATES,     \* window.SPECIAL_DATES: date string -> tag
    TIMETABLE_DATA,    \* window.TIMETABLE_DATA: variant -> definition
    SUBJECT_SCHEDULE,  \* window.SUBJECT_SCHEDULE: cycle -> period -> label
    notificationSupported, \* 'Notification' in window
    clock,             \* the device clock: what `new Date()` returns
    apiCall,           \* the last TimetableAPI call: operation and input
    apiResponse,       \* the value that call returned
    appCall,           \* the last call of a TimetableApp method: operation, input, result
    selectedDate,      \* TimetableApp.selectedDate
    timetableType,     \* TimetableApp.timetableType
    dayCycle,          \* TimetableApp.dayCycle
    currentPeriodInfo, \* TimetableApp.currentPeriodInfo
    nextPeriodInfo,    \* TimetableApp.nextPeriodInfo
    hasNotifiedSpecialSchedule, \* TimetableApp.hasNotifiedSpecialSchedule
    locationSearch,    \* window.location.search: the parameters api, date and format
    readyState,        \* "loading" until handleURLParams has run
    windowApiResponse, \* window.apiResponse
    datePickerValue,   \* the value of the date picker: null when empty, or a date string
    rawBody,           \* the envelope that document.body shows in a <pre>, or null
    documentHidden,    \* document.hidden
    mobileAgent,       \* /iPad|iPhone|iPod|Android/i.test(navigator.userAgent)
    isPageVisible,     \* TimetableApp.isPageVisible
    currentViewMode,   \* TimetableApp.currentViewMode
    lastUpdateTime,    \* TimetableApp.lastUpdateTime
    realTimeUpdateInterval, \* TimetableApp.realTimeUpdateInterval: null or an interval id
    animationFrameId,  \* TimetableApp.animationFrameId: null or a frame request id
    tickIntervals,     \* the ids of the live intervals set by startRealTimeUpdates
    frameRequests,     \* the ids of the pending requestAnimationFrame callbacks
    enabled,           \* NotificationManager.enabled
    permission,        \* NotificationManager.permission
    reminderMinutes,   \* NotificationManager.reminderMinutes
    scheduledNotifications, \* the keys of NotificationManager.scheduledNotifications
    checkInterval,     \* NotificationManager.checkInterval: null or an interval id
    checkerIntervals,  \* the ids of the live intervals set by startNotificationChecker
    cleanupTimers,     \* the pending setTimeout callbacks of checkUpcomingClasses
    localStorage,      \* the items 'notifications-enabled' and 'reminder-minutes'
    nmResult,          \* the value the last call of a NotificationManager method returned
    awaitingPrompt,    \* the enable() calls suspended at the permission prompt
    shown              \* the notifications created by NotificationManager.show

cfgVars ==
    <<DAY_ROTATION, SPECIAL_DATES, TIMETABLE_DATA, SUBJECT_SCHEDULE, notificationSupported>>
apiVars == <<apiCall, apiResponse>>
timerVars ==
    <<documentHidden, mobileAgent, isPageVisible, currentViewMode, lastUpdateTime,
      realTimeUpdateInterval, animationFrameId, tickIntervals, frameRequests>>
pageVars == <<locationSearch, readyState, windowApiResponse, rawBody, datePickerValue>>
appVars ==
    <<appCall, selectedDate, timetableType, dayCycle, currentPeriodInfo, nextPeriodInfo,
      hasNotifiedSpecialSchedule, timerVars, pageVars>>
nmVars ==
    <<enabled, permission, reminderMinutes, scheduledNotifications, checkInterval,
      checkerIntervals, cleanupTimers, localStorage, nmResult, awaitingPrompt, shown>>
vars == <<cfgVars, clock, apiVars, appVars, nmVars>>

-----------------------------------------------------------------------------
(* Bounds of the model *)

\* calendar days in the configured window, starting at FirstDate
NumDays == 4
\* length of the day-cycle rotation
NumCycles == 2
\* wall-clock minutes a slot may start or end at, starting at FirstMark
NumMarks == 4
\* largest number of slots (assembly, periods, breaks) of a generated definition
MaxSlots == 2
\* largest number of entries of SPECIAL_DATES
MaxSpecial == 1
\* calendar days, starting at FirstDate, on which the week is asked for
WeekSpan == 15
\* largest number of notifications followed in the list of shown ones
MaxShown == 3

-----------------------------------------------------------------------------
(* JavaScript values *)

Null == <<>>
Some(v) == <<v>>
IsNull(o) == o = <<>>
Val(o) == o[1]

\* obj[key] || null
Lookup(obj, key) == IF key \in DOMAIN obj THEN Some(obj[key]) ELSE Null

-----------------------------------------------------------------------------
(* Strings of digits and ':' *)

Chars == <<"0", "1", "2", "3", "4", "5", "6", "7", "8", "9", ":">>

\* the position of every character in Chars
CharIndex ==
    [c \in {Chars[i] : i \in 1..Len(Chars)} |-> CHOOSE i \in 1..Len(Chars) : Chars[i] = c]

\* UTF-16 code unit of a character, less 48
CharCode(c) == CharIndex[c] - 1

DigitChar(n) == Chars[n + 1]

MinOf(a, b) == IF a <= b THEN a ELSE b

\* a < b on strings: comparison by code units, a proper prefix is smaller
StrLess(a, b) ==
    \/ \E i \in 1..MinOf(Len(a), Len(b)) :
          /\ \A j \in 1..(i - 1) : a[j] = b[j]
          /\ CharCode(a[i]) < CharCode(b[i])
    \/ /\ Len(a) < Len(b)
       /\ \A j \in 1..Len(a) : a[j] = b[j]

\* a.localeCompare(b), for strings of digits with ':' at the same places
localeCompare(a, b) == IF a = b THEN 0 ELSE IF StrLess(a, b) THEN -1 ELSE 1

\* the decimal digits of n >= 0
RECURSIVE Digits(_)
Digits(n) ==
    IF n < 10 THEN <<DigitChar(n)>>
    ELSE Digits(n \div 10) \o <<DigitChar(n % 10)>>

\* String(n) of an integer
NumberString(n) == IF n < 0 THEN <<"-">> \o Digits(-n) ELSE Digits(n)

\* String(n).padStart(2, '0')
pad2(n) ==
    LET s == NumberString(n)
    IN  IF Len(s) < 2 THEN <<"0">> \o s ELSE s

\* a % b of JavaScript, b > 0: the sign of the result is the sign of a
Remainder(a, b) == IF a >= 0 THEN a % b ELSE -((-a) % b)

\* the literal "HH:MM" of hour h and minute m
HHMM(h, m) == pad2(h) \o <<":">> \o pad2(m)

\* parseInt(s) and Number(s) for a string of digits
RECURSIVE parseInt(_)
parseInt(s) ==
    IF s = <<>> THEN 0
    ELSE 10 * parseInt(SubSeq(s, 1, Len(s) - 1)) + CharCode(s[Len(s)])

\* timeStr.split(':') for a string holding one ':'
split(s) ==
    LET i == CHOOSE k \in 1..Len(s) : s[k] = ":"
    IN  <<SubSeq(s, 1, i - 1), SubSeq(s, i + 1, Len(s))>>

-----------------------------------------------------------------------------
(* Date objects *)

InvalidDate == [day |-> -1, ms |-> -1]

IsLeap(y) == (y % 4 = 0 /\ y % 100 # 0) \/ y % 400 = 0

DaysInMonth(y, m) ==
    IF m = 2 THEN (IF IsLeap(y) THEN 29 ELSE 28)
    ELSE IF m \in {4, 6, 9, 11} THEN 30 ELSE 31

\* days from 1970-01-01 to the civil date y-m-d
DaysFromCivil(y, m, d) ==
    LET yy == IF m <= 2 THEN y - 1 ELSE y
        era == yy \div 400
        yoe == yy - era * 400
        mp == (m + 9) % 12
        doy == (153 * mp + 2) \div 5 + d - 1
        doe == yoe * 365 + yoe \div 4 - yoe \div 100 + doy
    IN  era * 146097 + doe - 719468

\* the civil date <<y, m, d>> of a day number
CivilFromDays(n) ==
    LET z == n + 719468
        era == z \div 146097
        doe == z - era * 146097
        yoe == (doe - doe \div 1460 + doe \div 36524 - doe \div 146096) \div 365
        doy == doe - (365 * yoe + yoe \div 4 - yoe \div 100)
        mp == (5 * doy + 2) \div 153
        d == doy - (153 * mp + 2) \div 5 + 1
        m == IF mp < 10 THEN mp + 3 ELSE mp - 9
        y == yoe + era * 400 + (IF m <= 2 THEN 1 ELSE 0)
    IN  <<y, m, d>>

\* new Date(dateStr + 'T00:00:00'): local midnight of the day, or Invalid Date
NewDate(dateStr) ==
    LET y == dateStr[1]
        m == dateStr[2]
        d == dateStr[3]
    IN  IF m \in 1..12 /\ d >= 1 /\ d <= DaysInMonth(y, m)
        THEN [day |-> DaysFromCivil(y, m, d), ms |-> 0]
        ELSE InvalidDate

isNaN_Never(date) == FALSE

\* isNaN(date.getTime())
isNaN(date) == date = InvalidDate

\* date.getDay(): 0 = Sunday .. 6 = Saturday (1970-01-01 was a Thursday)
getDay(date) == (date.day + 4) % 7

getHours(date) == date.ms \div 3600000
getMinutes(date) == (date.ms % 3600000) \div 60000

\* date.setHours(h, m, 0, 0)
setHours(date, h, m) == [date EXCEPT !.ms = h * 3600000 + m * 60000]

\* endTime - now, in milliseconds
DateDiff(a, b) == (a.day - b.day) * 86400000 + (a.ms - b.ms)

\* the Date n milliseconds after date
AddMillis(date, n) ==
    [day |-> date.day + (date.ms + n) \div 86400000, ms |-> (date.ms + n) % 86400000]

formatDateToISO(date) == CivilFromDays(date.day)

\* date.toTimeString().substring(0, 5)
formatTimeForComparison(date) == HHMM(getHours(date), getMinutes(date))

-----------------------------------------------------------------------------
(* Literals of the source *)

MSG_WEEKEND == "weekend-rest"       \* '週末休息'
MSG_NON_SCHOOL == "non-school-day"  \* '非上課日'
MSG_NO_CLASS_TODAY == "no-class-today" \* '今日沒有課程'
SUBJECT_PLACEHOLDER == "class"      \* '課程'
ASSEMBLY_NAME == "assembly"         \* '朝會'
ASSEMBLY_SUBJECT == "Pre-School Assembly"

\* names[day] of getDayOfWeekName: '星期日' .. '星期六'
DayNames ==
    <<"Sunday", "Monday", "Tuesday", "Wednesday", "Thursday", "Friday", "Saturday">>

getDayOfWeekName(day) == DayNames[day + 1]

\* names[type] || type
getTimetableTypeName(type) ==
    CASE type = "normal" -> "normal timetable"            \* '正常時間表'
      [] type = "specialA" -> "special timetable A"       \* '特殊時間表A - 學期初'
      [] type = "specialB" -> "special timetable B"       \* '特殊時間表B'
      [] type = "specialC" -> "special timetable C"       \* '特殊時間表C - 長集會'
      [] type = "specialD" -> "special timetable D"       \* '特殊時間表D - 社際聚會'
      [] type = "specialE" -> "special timetable E"       \* '特殊時間表E - 資訊日準備'
      [] type = "none" -> MSG_NON_SCHOOL
      [] OTHER -> type

\* `第${n}節` and `P${n}`
PeriodName(n) == "period-" \o ToString(n)
PeriodDisplayName(n) == "P" \o ToString(n)

-----------------------------------------------------------------------------
(* TimetableAPI helpers *)

calculateDuration(start, end) ==
    LET s == split(start)
        e == split(end)
    IN  (parseInt(e[1]) * 60 + parseInt(e[2])) - (parseInt(s[1]) * 60 + parseInt(s[2]))

isTimeInRange_ExclusiveEnd(current, start, end) ==
    /\ ~StrLess(current, start)
    /\ StrLess(current, end)

isTimeInRange(current, start, end) ==
    /\ ~StrLess(current, start)
    /\ ~StrLess(end, current)

SubjectOf_NoFallback(subjects, cycle, periodNumber) ==
    IF /\ ~IsNull(cycle)
       /\ Val(cycle) \in DOMAIN subjects
       /\ periodNumber \in DOMAIN subjects[Val(cycle)]
    THEN subjects[Val(cycle)][periodNumber]
    ELSE ""

\* subjectSchedule[dayCycle]?.[periodNumber] || '課程': a missing row, a
\* missing entry and an empty label all give the placeholder
SubjectOf(subjects, cycle, periodNumber) ==
    IF /\ ~IsNull(cycle)
       /\ Val(cycle) \in DOMAIN subjects
       /\ periodNumber \in DOMAIN subjects[Val(cycle)]
       /\ subjects[Val(cycle)][periodNumber] # ""
    THEN subjects[Val(cycle)][periodNumber]
    ELSE SUBJECT_PLACEHOLDER

InsertByStart_BeforeEquals(sorted, x) ==
    LET after == {i \in 1..Len(sorted) : localeCompare(sorted[i].start, x.start) >= 0}
        at == IF after = {} THEN Len(sorted) + 1
              ELSE CHOOSE i \in after : \A j \in after : i <= j
    IN  SubSeq(sorted, 1, at - 1) \o <<x>> \o SubSeq(sorted, at, Len(sorted))

\* one step of the stable sort: x goes after every element that does not
\* compare greater than it
InsertByStart(sorted, x) ==
    LET after == {i \in 1..Len(sorted) : localeCompare(sorted[i].start, x.start) > 0}
        at == IF after = {} THEN Len(sorted) + 1
              ELSE CHOOSE i \in after : \A j \in after : i <= j
    IN  SubSeq(sorted, 1, at - 1) \o <<x>> \o SubSeq(sorted, at, Len(sorted))

\* schedule.sort((a, b) => a.start.localeCompare(b.start)); the sort is stable
RECURSIVE SortByStart(_)
SortByStart(s) ==
    IF s = <<>> THEN <<>>
    ELSE InsertByStart(SortByStart(SubSeq(s, 1, Len(s) - 1)), s[Len(s)])

AssemblySlot(a) ==
    [type |-> "assembly", name |-> ASSEMBLY_NAME, displayName |-> ASSEMBLY_NAME,
     start |-> a.start, end |-> a.end, subject |-> ASSEMBLY_SUBJECT,
     duration |-> calculateDuration(a.start, a.end)]

PeriodSlot_ZeroBased(subjects, period, periodNumber, cycle) ==
    [type |-> "period", name |-> PeriodName(periodNumber - 1),
     displayName |-> PeriodDisplayName(periodNumber - 1),
     periodNumber |-> periodNumber - 1,
     start |-> period.start, end |-> period.end,
     subject |-> SubjectOf(subjects, cycle, periodNumber - 1),
     duration |-> calculateDuration(period.start, period.end)]

PeriodSlot(subjects, period, periodNumber, cycle) ==
    [type |-> "period", name |-> PeriodName(periodNumber),
     displayName |-> PeriodDisplayName(periodNumber),
     periodNumber |-> periodNumber,
     start |-> period.start, end |-> period.end,
     subject |-> SubjectOf(subjects, cycle, periodNumber),
     duration |-> calculateDuration(period.start, period.end)]

BreakSlot(b) ==
    [type |-> "break", name |-> b.name, displayName |-> b.name,
     start |-> b.start, end |-> b.end, subject |-> b.name,
     duration |-> calculateDuration(b.start, b.end)]

buildSchedule(subjects, timetable, cycle) ==
    SortByStart(
        (IF ~IsNull(timetable.preSchoolAssembly)
         THEN <<AssemblySlot(Val(timetable.preSchoolAssembly))>> ELSE <<>>)
        \o [i \in 1..Len(timetable.periods) |->
               PeriodSlot(subjects, timetable.periods[i], i, cycle)]
        \o [i \in 1..Len(timetable.breaks) |-> BreakSlot(timetable.breaks[i])])

errorResponse(now, message) ==
    [success |-> FALSE, timestamp |-> now, error |-> [message |-> message]]

\* isWeekend ? '週末休息' : '非上課日'
NonSchoolMessage_AlwaysGeneric(isWeekend) == MSG_NON_SCHOOL

NonSchoolMessage(isWeekend) == IF isWeekend THEN MSG_WEEKEND ELSE MSG_NON_SCHOOL

ApiTimetableType_WeekendFirst(dayOfWeek, isWeekend, cycle, specialType) ==
    IF isWeekend \/ IsNull(cycle) THEN "none"
    ELSE IF ~IsNull(specialType) THEN "special" \o Val(specialType)
    ELSE IF dayOfWeek = 5 THEN "specialB"
    ELSE "normal"

ApiTimetableType_NoWeekendTest(dayOfWeek, isWeekend, cycle, specialType) ==
    IF ~IsNull(specialType) THEN "special" \o Val(specialType)
    ELSE IF IsNull(cycle) THEN "none"
    ELSE IF dayOfWeek = 5 THEN "specialB"
    ELSE "normal"

ApiTimetableType_FridayOffByOne(dayOfWeek, isWeekend, cycle, specialType) ==
    IF ~IsNull(specialType) THEN "special" \o Val(specialType)
    ELSE IF isWeekend \/ IsNull(cycle) THEN "none"
    ELSE IF dayOfWeek >= 4 THEN "specialB"
    ELSE "normal"

\* the variant selection of getByDate
ApiTimetableType(dayOfWeek, isWeekend, cycle, specialType) ==
    IF ~IsNull(specialType) THEN "special" \o Val(specialType)
    ELSE IF isWeekend \/ IsNull(cycle) THEN "none"
    ELSE IF dayOfWeek = 5 THEN "specialB"
    ELSE "normal"

\* TimetableAPI.getByDate(dateStr), called at the instant now
getByDate(rotation, specials, catalog, subjects, now, dateStr) ==
    LET date == NewDate(dateStr)
        dayOfWeek == getDay(date)
        isWeekend == dayOfWeek = 0 \/ dayOfWeek = 6
        cycle == Lookup(rotation, dateStr)
        specialType == Lookup(specials, dateStr)
        type == ApiTimetableType(dayOfWeek, isWeekend, cycle, specialType)
        isSchoolDay == type # "none"
        timetable == Lookup(catalog, type)
        head == [date |-> dateStr,
                 dayOfWeek |-> getDayOfWeekName(dayOfWeek),
                 dayOfWeekNumber |-> dayOfWeek,
                 dayCycle |-> cycle,
                 timetableType |-> type,
                 timetableTypeName |-> getTimetableTypeName(type),
                 isSchoolDay |-> isSchoolDay,
                 isWeekend |-> isWeekend]
        body == IF isSchoolDay /\ ~IsNull(timetable)
                THEN [schedule |-> buildSchedule(subjects, Val(timetable), cycle),
                      periods |-> Len(Val(timetable).periods),
                      breaks |-> Len(Val(timetable).breaks)]
                     @@ (IF ~IsNull(Val(timetable).preSchoolAssembly)
                         THEN [preSchoolAssembly |->
                                   Val(Val(timetable).preSchoolAssembly)]
                         ELSE <<>>)
                ELSE [schedule |-> <<>>,
                      message |-> NonSchoolMessage(isWeekend)]
    IN  IF isNaN(date)
        THEN errorResponse(now, "Invalid date format. Use YYYY-MM-DD")
        ELSE [success |-> TRUE, timestamp |-> now, data |-> head @@ body]

\* parseTimeToDate(timeStr); today is the reading of its own new Date()
parseTimeToDate(today, timeStr) ==
    LET hm == split(timeStr)
    IN  setHours(today, parseInt(hm[1]), parseInt(hm[2]))

\* the first item of the schedule whose range holds currentTime, or null
FindCurrent(schedule, currentTime) ==
    LET hits == {i \in 1..Len(schedule) :
                    isTimeInRange(currentTime, schedule[i].start, schedule[i].end)}
    IN  IF hits = {} THEN Null
        ELSE Some(schedule[CHOOSE i \in hits : \A j \in hits : i <= j])

FindNext_NotStrict(schedule, currentTime) ==
    LET later == {i \in 1..Len(schedule) : ~StrLess(schedule[i].start, currentTime)}
    IN  IF later = {} THEN Null
        ELSE Some(schedule[CHOOSE i \in later : \A j \in later : i <= j])

\* the first item of the schedule with item.start > currentTime, or null
FindNext(schedule, currentTime) ==
    LET later == {i \in 1..Len(schedule) : StrLess(currentTime, schedule[i].start)}
    IN  IF later = {} THEN Null
        ELSE Some(schedule[CHOOSE i \in later : \A j \in later : i <= j])

RemainingSeconds_CeilingOfMinutes(now, end) ==
    LET left == DateDiff(parseTimeToDate(now, end), now)
    IN  IF left > 0 THEN ((left + 59999) \div 60000) * 60 ELSE 0

RemainingSeconds_NoClamp(now, end) ==
    DateDiff(parseTimeToDate(now, end), now) \div 1000

\* Math.max(0, Math.floor((endTime - now) / 1000)). A call is synchronous:
\* the clock readings it takes are one instant of the sampled clock, so the
\* reading inside parseTimeToDate is now
RemainingSeconds(now, end) ==
    LET secs == DateDiff(parseTimeToDate(now, end), now) \div 1000
    IN  IF secs > 0 THEN secs ELSE 0

\* the "HH:MM:SS" rendering of a number of seconds
formatSeconds(seconds) ==
    pad2(seconds \div 3600) \o <<":">> \o pad2(Remainder(seconds, 3600) \div 60)
        \o <<":">> \o pad2(Remainder(seconds, 60))

IsNoSchool_OnlyOnFailure(todayData) == ~todayData.success

IsNoSchool_AlsoWithoutSlots(todayData) ==
    \/ ~todayData.success
    \/ ~todayData.data.isSchoolDay
    \/ todayData.data.schedule = <<>>

\* !todayData.success || !todayData.data.isSchoolDay
IsNoSchool(todayData) == ~todayData.success \/ ~todayData.data.isSchoolDay

\* TimetableAPI.getCurrent(), called at the instant now
getCurrent(rotation, specials, catalog, subjects, now) ==
    LET today == formatDateToISO(now)
        currentTime == formatTimeForComparison(now)
        todayData == getByDate(rotation, specials, catalog, subjects, now, today)
        schedule == todayData.data.schedule
        currentPeriod == FindCurrent(schedule, currentTime)
        nextPeriod == FindNext(schedule, currentTime)
        remainingSeconds ==
            IF ~IsNull(currentPeriod)
            THEN Some(RemainingSeconds(now, Val(currentPeriod).end))
            ELSE Null
    IN  IF IsNoSchool(todayData)
        THEN [success |-> TRUE, timestamp |-> now,
              data |-> [date |-> today,
                        currentTime |-> currentTime,
                        status |-> "no-school",
                        currentPeriod |-> Null,
                        nextPeriod |-> Null,
                        message |-> IF todayData.success
                                    THEN todayData.data.message
                                    ELSE MSG_NO_CLASS_TODAY]]
        ELSE [success |-> TRUE, timestamp |-> now,
              data |-> [date |-> today,
                        currentTime |-> currentTime,
                        dayCycle |-> todayData.data.dayCycle,
                        status |-> IF IsNull(currentPeriod) THEN "free"
                                   ELSE Val(currentPeriod).type,
                        currentPeriod |-> currentPeriod,
                        nextPeriod |-> nextPeriod,
                        remainingSeconds |-> remainingSeconds,
                        remainingFormatted |->
                            IF ~IsNull(remainingSeconds) /\ Val(remainingSeconds) # 0
                            THEN Some(formatSeconds(Val(remainingSeconds)))
                            ELSE Null]]

-----------------------------------------------------------------------------
(* TimetableApp: variant selection *)

isNonSchoolDay_IgnoresOverride(rotation, specials, dateStr) ==
    LET date == NewDate(dateStr)
        dayOfWeek == getDay(date)
    IN  IF isNaN(date) THEN FALSE
        ELSE IF dayOfWeek = 0 \/ dayOfWeek = 6 THEN TRUE
        ELSE IsNull(Lookup(rotation, dateStr))

isNonSchoolDay_NoWeekendTest(rotation, specials, dateStr) ==
    IF isNaN(NewDate(dateStr)) THEN FALSE
    ELSE IsNull(Lookup(rotation, dateStr)) /\ IsNull(Lookup(specials, dateStr))

isNonSchoolDay(rotation, specials, dateStr) ==
    LET date == NewDate(dateStr)
        dayOfWeek == getDay(date)
    IN  IF isNaN(date) THEN FALSE
        ELSE IF dayOfWeek = 0 \/ dayOfWeek = 6 THEN TRUE
        ELSE IsNull(Lookup(rotation, dateStr)) /\ IsNull(Lookup(specials, dateStr))

getTimetableTypeForDate_NoFridayRule(rotation, specials, dateStr) ==
    IF ~IsNull(Lookup(specials, dateStr))
    THEN "special" \o Val(Lookup(specials, dateStr))
    ELSE IF isNonSchoolDay(rotation, specials, dateStr) THEN "none"
    ELSE "normal"

getTimetableTypeForDate(rotation, specials, dateStr) ==
    LET date == NewDate(dateStr)
    IN  IF ~IsNull(Lookup(specials, dateStr))
        THEN "special" \o Val(Lookup(specials, dateStr))
        ELSE IF isNonSchoolDay(rotation, specials, dateStr) THEN "none"
        ELSE IF ~isNaN(date) /\ getDay(date) = 5 THEN "specialB"
        ELSE "normal"

calculateDayCycle(rotation, dateStr) == Lookup(rotation, dateStr)

\* types[timetableType] || '正常時間表'
getTimetableTypeText(type) ==
    IF type \in {"specialA", "specialB", "specialC", "specialD", "specialE", "none"}
    THEN getTimetableTypeName(type)
    ELSE "normal timetable"

-----------------------------------------------------------------------------
(* TimetableApp: the current and the next period *)

EmptyString == <<>>

\* the record of updateCurrentPeriod for a day of type 'none'
NoSchoolInfo ==
    [type |-> "none", name |-> MSG_NO_CLASS_TODAY, start |-> EmptyString,
     end |-> EmptyString, subject |-> MSG_NON_SCHOOL]

\* the record of updateCurrentPeriod when the catalog has no definition:
\* name '時間表資料缺失', subject '請稍後再試'
MissingDataInfo ==
    [type |-> "free", name |-> "timetable-data-missing", start |-> EmptyString,
     end |-> EmptyString, subject |-> "try-again-later"]

\* the record of findCurrentPeriod outside every slot:
\* name '空堂時間', subject '目前沒有課程'
FreeInfo ==
    [type |-> "free", name |-> "free-time", start |-> EmptyString,
     end |-> EmptyString, subject |-> "no-class-now"]

\* smallest member of a non-empty set of indices
First(S) == CHOOSE i \in S : \A j \in S : i <= j

findCurrentPeriod(subjects, cycle, currentTimeStr, timetable) ==
    LET inPeriods == {i \in 1..Len(timetable.periods) :
                         isTimeInRange(currentTimeStr, timetable.periods[i].start,
                                       timetable.periods[i].end)}
        inBreaks == {i \in 1..Len(timetable.breaks) :
                        isTimeInRange(currentTimeStr, timetable.breaks[i].start,
                                      timetable.breaks[i].end)}
        a == timetable.preSchoolAssembly
    IN  IF inPeriods # {}
        THEN [type |-> "period", name |-> PeriodName(First(inPeriods)),
              start |-> timetable.periods[First(inPeriods)].start,
              end |-> timetable.periods[First(inPeriods)].end,
              subject |-> SubjectOf(subjects, cycle, First(inPeriods))]
        ELSE IF inBreaks # {}
        THEN [type |-> "break", name |-> timetable.breaks[First(inBreaks)].name,
              start |-> timetable.breaks[First(inBreaks)].start,
              end |-> timetable.breaks[First(inBreaks)].end,
              subject |-> timetable.breaks[First(inBreaks)].name]
        ELSE IF ~IsNull(a) /\ isTimeInRange(currentTimeStr, Val(a).start, Val(a).end)
        THEN [type |-> "assembly", name |-> ASSEMBLY_NAME,
              start |-> Val(a).start, end |-> Val(a).end,
              subject |-> ASSEMBLY_SUBJECT]
        ELSE FreeInfo

\* allTimeSlots of findNextPeriod, sorted by start
AllTimeSlots(timetable) ==
    SortByStart(
        (IF ~IsNull(timetable.preSchoolAssembly)
         THEN <<[start |-> Val(timetable.preSchoolAssembly).start,
                 end |-> Val(timetable.preSchoolAssembly).end,
                 type |-> "assembly", periodNumber |-> 0]>>
         ELSE <<>>)
        \o [i \in 1..Len(timetable.periods) |->
               [start |-> timetable.periods[i].start, end |-> timetable.periods[i].end,
                type |-> "period", periodNumber |-> i]]
        \o [i \in 1..Len(timetable.breaks) |->
               [name |-> timetable.breaks[i].name,
                start |-> timetable.breaks[i].start, end |-> timetable.breaks[i].end,
                type |-> "break", periodNumber |-> 0]])

findNextPeriod(subjects, cycle, currentTimeStr, timetable) ==
    LET slot == FindNext(AllTimeSlots(timetable), currentTimeStr)
    IN  IF IsNull(slot) THEN Null
        ELSE Some([type |-> Val(slot).type,
                   name |-> IF Val(slot).type = "period"
                            THEN PeriodName(Val(slot).periodNumber)
                            ELSE IF Val(slot).type = "assembly" THEN ASSEMBLY_NAME
                            ELSE Val(slot).name,
                   start |-> Val(slot).start,
                   end |-> Val(slot).end,
                   subject |-> IF Val(slot).type = "period"
                               THEN Some(SubjectOf(subjects, cycle, Val(slot).periodNumber))
                               ELSE Lookup(Val(slot), "name")])

\* buildScheduleItems(timetable): the items of the schedule grid
buildScheduleItems(subjects, cycle, timetable) ==
    SortByStart(
        (IF ~IsNull(timetable.preSchoolAssembly)
         THEN <<[start |-> Val(timetable.preSchoolAssembly).start,
                 end |-> Val(timetable.preSchoolAssembly).end,
                 type |-> "assembly", displayName |-> ASSEMBLY_NAME,
                 subject |-> ASSEMBLY_SUBJECT]>>
         ELSE <<>>)
        \o [i \in 1..Len(timetable.periods) |->
               [start |-> timetable.periods[i].start, end |-> timetable.periods[i].end,
                type |-> "period", displayName |-> PeriodName(i),
                subject |-> SubjectOf(subjects, cycle, i)]]
        \o [i \in 1..Len(timetable.breaks) |->
               [name |-> timetable.breaks[i].name,
                start |-> timetable.breaks[i].start, end |-> timetable.breaks[i].end,
                type |-> "break", displayName |-> timetable.breaks[i].name,
                subject |-> timetable.breaks[i].name]])

-----------------------------------------------------------------------------
(* NotificationManager: the notices raised by TimetableApp *)

\* show(options): the list of notifications after the call
show(perm, list, options) ==
    IF perm # "granted" THEN list ELSE Append(list, options)

notifyPeriodChange_ToAnySlot(isEnabled, perm, list, fromPeriod, toPeriod) ==
    IF ~isEnabled \/ perm # "granted" THEN list
    ELSE IF toPeriod.type \in {"period", "break", "assembly"}
    THEN show(perm, list, [tag |-> "period-change", name |-> toPeriod.name,
                           body |-> toPeriod.subject])
    ELSE list

notifyPeriodChange(isEnabled, perm, list, fromPeriod, toPeriod) ==
    IF ~isEnabled \/ perm # "granted" THEN list
    ELSE IF toPeriod.type = "period"
    THEN show(perm, list, [tag |-> "period-change", name |-> toPeriod.name,
                           body |-> toPeriod.subject])
    ELSE list

notifySpecialSchedule(isEnabled, perm, list, type, typeName) ==
    IF ~isEnabled \/ perm # "granted" THEN list
    ELSE IF type # "normal" /\ type # "none"
    THEN show(perm, list, [tag |-> "special-schedule", name |-> type, body |-> typeName])
    ELSE list

ClampLead_NoLowerBound(minutes) == IF minutes > 30 THEN 30 ELSE minutes

\* Math.max(1, Math.min(30, minutes))
ClampLead(minutes) == IF minutes < 1 THEN 1 ELSE IF minutes > 30 THEN 30 ELSE minutes

\* Math.floor((startTime - now) / 60000), startTime at next.start of now's day
MinutesUntilStart(now, start) ==
    LET hm == split(start)
    IN  DateDiff(setHours(now, parseInt(hm[1]), parseInt(hm[2])), now) \div 60000

\* `${next.start}-${next.name}`; start always has the five characters HH:MM
NotificationKey(next) == <<next.start, next.name>>

IsDue_IgnoresFiredKeys(minutesUntilStart, lead, key, scheduled) ==
    minutesUntilStart > 0 /\ minutesUntilStart <= lead

IsDue_AtStartToo(minutesUntilStart, lead, key, scheduled) ==
    minutesUntilStart >= 0 /\ minutesUntilStart <= lead /\ key \notin scheduled

\* the two tests that guard a class reminder
IsDue(minutesUntilStart, lead, key, scheduled) ==
    minutesUntilStart > 0 /\ minutesUntilStart <= lead /\ key \notin scheduled

CleanupDelay_UntilFloorOfStart(minutesUntilStart) == minutesUntilStart * 60000

\* the delay of the cleanup callback: (minutesUntilStart + 1) * 60000
CleanupDelay(minutesUntilStart) == (minutesUntilStart + 1) * 60000

\* the options of a class reminder: tag is `class-reminder-${next.start}`,
\* title names next.name, body holds next.subject, the minutes and next.start
ReminderOptions(next, minutesUntilStart) ==
    [tag |-> "class-reminder", start |-> next.start, name |-> next.name,
     body |-> next.subject, minutes |-> minutesUntilStart]

checkUpcomingClasses_AnySlotType(current, isEnabled, perm, lead, scheduled, timers, list, now) ==
    LET same == [scheduled |-> scheduled, timers |-> timers, shown |-> list]
    IN  IF ~isEnabled \/ perm # "granted" THEN same
        ELSE IF ~current.success \/ IsNull(current.data.nextPeriod) THEN same
        ELSE LET next == Val(current.data.nextPeriod)
                 minutesUntilStart == MinutesUntilStart(now, next.start)
                 notificationKey == NotificationKey(next)
             IN  IF IsDue(minutesUntilStart, lead, notificationKey, scheduled)
                 THEN [scheduled |-> scheduled \cup {notificationKey},
                       timers |-> timers \cup
                           {[key |-> notificationKey,
                             due |-> AddMillis(now, CleanupDelay(minutesUntilStart))]},
                       shown |-> show(perm, list, ReminderOptions(next, minutesUntilStart))]
                 ELSE same

\* checkUpcomingClasses() when the clock reads now: the fired keys, the
\* pending cleanup callbacks and the notifications after the call
checkUpcomingClasses(current, isEnabled, perm, lead, scheduled, timers, list, now) ==
    LET same == [scheduled |-> scheduled, timers |-> timers, shown |-> list]
    IN  IF ~isEnabled \/ perm # "granted" THEN same
        ELSE IF ~current.success \/ IsNull(current.data.nextPeriod) THEN same
        ELSE LET next == Val(current.data.nextPeriod)
                 minutesUntilStart == MinutesUntilStart(now, next.start)
                 notificationKey == NotificationKey(next)
             IN  IF next.type # "period" THEN same
                 ELSE IF IsDue(minutesUntilStart, lead, notificationKey, scheduled)
                 THEN [scheduled |-> scheduled \cup {notificationKey},
                       timers |-> timers \cup
                           {[key |-> notificationKey,
                             due |-> AddMillis(now, CleanupDelay(minutesUntilStart))]},
                       shown |-> show(perm, list, ReminderOptions(next, minutesUntilStart))]
                 ELSE same

-----------------------------------------------------------------------------
(* Configuration data (timetable-data.js) *)

\* first day of the configured window: a Thursday
FirstDate == <<2025, 12, 18>>

ConfigDates ==
    {CivilFromDays(DaysFromCivil(FirstDate[1], FirstDate[2], FirstDate[3]) + i) :
        i \in 0..(NumDays - 1)}

\* a string that `new Date` cannot parse
BadDate == <<2025, 12, 32>>

DayNumber(dateStr) == DaysFromCivil(dateStr[1], dateStr[2], dateStr[3])

\* the day-cycle table whose school days are S: cycles 1..NumCycles in turn
RotationOver(S) ==
    [d \in S |-> (Cardinality({e \in S : DayNumber(e) < DayNumber(d)}) % NumCycles) + 1]

RotationTables == {RotationOver(S) : S \in SUBSET ConfigDates}

\* tags of SPECIAL_DATES; the catalog below has no definition for specialC
Tags == {"A", "B", "C"}

SpecialTables ==
    UNION {[S -> Tags] : S \in {X \in SUBSET ConfigDates : Cardinality(X) <= MaxSpecial}}

Slot(sh, sm, eh, em) == [start |-> HHMM(sh, sm), end |-> HHMM(eh, em)]

NamedSlot(name, sh, sm, eh, em) ==
    [name |-> name, start |-> HHMM(sh, sm), end |-> HHMM(eh, em)]

\* a catalog in the shape of TIMETABLE_DATA
SampleCatalog ==
    [normal |->
        [preSchoolAssembly |-> Some(Slot(8, 20, 8, 35)),
         periods |-> <<Slot(8, 40, 9, 20), Slot(9, 20, 10, 0), Slot(10, 15, 10, 55)>>,
         breaks |-> <<NamedSlot("recess", 10, 0, 10, 15)>>],
     specialA |->
        [preSchoolAssembly |-> Null,
         periods |-> <<Slot(8, 40, 9, 10), Slot(9, 25, 9, 55)>>,
         breaks |-> <<NamedSlot("recess", 9, 10, 9, 25)>>],
     specialB |->
        [preSchoolAssembly |-> Null,
         periods |-> <<Slot(8, 30, 9, 5), Slot(9, 5, 9, 40)>>,
         breaks |-> <<>>]]

\* a subject table in the shape of SUBJECT_SCHEDULE: in cycle 2 the label of
\* period 2 is empty and period 3 has no entry
SampleSubjects ==
    (1 :> (1 :> "ICT" @@ 2 :> "MATH" @@ 3 :> "ENG")) @@ (2 :> (1 :> "PE" @@ 2 :> ""))

NoCall == [op |-> "none"]

\* localStorage before the application has written to it
NoItems == [enabled |-> Null, minutes |-> Null]

\* the enable() calls that wait at `await Notification.requestPermission()`:
\* how many were made before the last disable() returned and how many after
NoPrompt == [before |-> 0, after |-> 0]

\* ... once disable() has returned
Overtaken(calls) == [before |-> calls.before + calls.after, after |-> 0]

\* localStorage.getItem('notifications-enabled') === 'true'
StoredEnabled(items) == items.enabled = Some("true")

\* parseInt(localStorage.getItem('reminder-minutes')) || 5
StoredLead(items) ==
    IF IsNull(items.minutes) \/ parseInt(Val(items.minutes)) = 0 THEN 5
    ELSE parseInt(Val(items.minutes))

\* a query string without parameters
NoQuery == [api |-> Null, date |-> Null, format |-> Null]

\* the state after the scripts have loaded when the clock reads now, with the
\* query string search
InitPage(now, search, ready) ==
    /\ clock = now
    /\ locationSearch = search
    /\ datePickerValue = IF ready = "complete" THEN Some(formatDateToISO(now)) ELSE Null
    /\ readyState = ready
    /\ windowApiResponse = Null
    /\ rawBody = Null
    /\ apiCall = NoCall
    /\ apiResponse = Null
    /\ appCall = NoCall
    /\ selectedDate = Null
    /\ timetableType = Null
    /\ dayCycle = Null
    /\ currentPeriodInfo = Null
    /\ nextPeriodInfo = Null
    /\ hasNotifiedSpecialSchedule = FALSE
    /\ documentHidden = FALSE
    /\ mobileAgent = FALSE
    /\ isPageVisible = TRUE
    /\ currentViewMode = "today"
    /\ lastUpdateTime = clock
    /\ realTimeUpdateInterval = Null
    /\ animationFrameId = Null
    /\ tickIntervals = {}
    /\ frameRequests = {}
    /\ notificationSupported = TRUE
    /\ localStorage = NoItems
    /\ enabled = StoredEnabled(NoItems)
    /\ permission = "default"
    /\ reminderMinutes = StoredLead(NoItems)
    /\ scheduledNotifications = {}
    /\ checkInterval = Null
    /\ checkerIntervals = {}
    /\ cleanupTimers = {}
    /\ nmResult = Null
    /\ awaitingPrompt = NoPrompt
    /\ shown = <<>>

\* ... without query string, after handleURLParams has run
InitAt(now) == InitPage(now, NoQuery, "complete")

-----------------------------------------------------------------------------
(* Specification SpecResolve: variant selection, any calendar tables *)

InitResolve ==
    /\ DAY_ROTATION \in RotationTables
    /\ SPECIAL_DATES \in SpecialTables
    /\ TIMETABLE_DATA = SampleCatalog
    /\ SUBJECT_SCHEDULE = SampleSubjects
    /\ InitAt(setHours(NewDate(FirstDate), 9, 0))

DateInputs == ConfigDates \cup {BadDate}

\* a caller invokes TimetableAPI.getByDate(dateStr)
ApiGetByDate ==
    \E dateStr \in DateInputs :
        /\ apiCall' = [op |-> "getByDate", date |-> dateStr]
        /\ apiResponse' = getByDate(DAY_ROTATION, SPECIAL_DATES, TIMETABLE_DATA,
                                    SUBJECT_SCHEDULE, clock, dateStr)
        /\ UNCHANGED <<cfgVars, clock, appVars, nmVars>>

\* viewSelectedDate() with dateStr in the date picker: updateTimetableForDate
ViewSelectedDate ==
    \E dateStr \in DateInputs :
        /\ selectedDate' = Some(dateStr)
        /\ timetableType' = Some(getTimetableTypeForDate(DAY_ROTATION, SPECIAL_DATES, dateStr))
        /\ dayCycle' = calculateDayCycle(DAY_ROTATION, dateStr)
        /\ datePickerValue' = Some(dateStr)
        /\ UNCHANGED <<cfgVars, clock, apiVars, nmVars, appCall, currentPeriodInfo,
                       nextPeriodInfo, hasNotifiedSpecialSchedule, timerVars,
                       locationSearch, readyState, windowApiResponse, rawBody>>

\* a caller invokes TimetableApp.isNonSchoolDay(dateStr)
AppIsNonSchoolDay ==
    \E dateStr \in DateInputs :
        /\ appCall' = [op |-> "isNonSchoolDay", date |-> dateStr,
                       result |-> isNonSchoolDay(DAY_ROTATION, SPECIAL_DATES, dateStr)]
        /\ UNCHANGED <<cfgVars, clock, apiVars, nmVars, selectedDate, timetableType,
                       dayCycle, currentPeriodInfo, nextPeriodInfo,
                       hasNotifiedSpecialSchedule, timerVars, pageVars>>

NextResolve == ApiGetByDate \/ ViewSelectedDate

SpecResolve == InitResolve /\ [][NextResolve]_vars

-----------------------------------------------------------------------------
(* Specification SpecCalendar: the calendar predicates, any calendar tables *)

NextCalendar == AppIsNonSchoolDay

SpecCalendar == InitResolve /\ [][NextCalendar]_vars

-----------------------------------------------------------------------------
(* Timetable definitions and clock readings of the locator specifications *)

\* the first wall-clock minute a generated slot may start at: 09:58
FirstMark == <<9, 58>>

MarkMinutes == {FirstMark[1] * 60 + FirstMark[2] + i : i \in 0..(NumMarks - 1)}

TimeOfMinute(n) == HHMM(n \div 60, n % 60)

\* every {start, end} with start < end over the marks
Intervals ==
    {[start |-> TimeOfMinute(a), end |-> TimeOfMinute(b)] :
        <<a, b>> \in {p \in MarkMinutes \X MarkMinutes : p[1] < p[2]}}

BreakName(i) == "break-" \o ToString(i)

\* the definitions with na assemblies, np periods and nb breaks
DefinitionsOfShape(na, np, nb) ==
    {[preSchoolAssembly |-> a,
      periods |-> p,
      breaks |-> [i \in 1..nb |-> [name |-> BreakName(i), start |-> b[i].start,
                                   end |-> b[i].end]]] :
        a \in (IF na = 0 THEN {Null} ELSE {Some(x) : x \in Intervals}),
        p \in [1..np -> Intervals],
        b \in [1..nb -> Intervals]}

\* every definition of at most MaxSlots slots, overlapping ones included
Definitions ==
    UNION {DefinitionsOfShape(sh[1], sh[2], sh[3]) :
              sh \in {x \in (0..1) \X (0..MaxSlots) \X (0..MaxSlots) :
                          x[1] + x[2] + x[3] <= MaxSlots}}

\* the {start, end} of every slot of a definition
SlotsOf(timetable) ==
    (IF IsNull(timetable.preSchoolAssembly) THEN <<>>
     ELSE <<Val(timetable.preSchoolAssembly)>>)
    \o timetable.periods
    \o [i \in 1..Len(timetable.breaks) |->
           [start |-> timetable.breaks[i].start, end |-> timetable.breaks[i].end]]

\* no two slots of the definition overlap; one may start when another ends
NonOverlapping(timetable) ==
    LET sl == SlotsOf(timetable)
    IN  \A i, j \in 1..Len(sl) :
            i # j => (~StrLess(sl[j].start, sl[i].end) \/ ~StrLess(sl[i].start, sl[j].end))

ValidDefinitions == {t \in Definitions : NonOverlapping(t)}

\* the sampled clock readings of a minute, in milliseconds from its start:
\* the start of the minute, and half a second before the next one
OffsetSamples == {0, 59500}

\* the clock readings of the first day of the window
Instants ==
    {[day |-> DayNumber(FirstDate), ms |-> m * 60000 + f] :
        m \in MarkMinutes, f \in OffsetSamples}

FirstInstant == setHours(NewDate(FirstDate), FirstMark[1], FirstMark[2])

\* every configured date is a school day of the rotation, none is special
InitLocateWith(defs) ==
    /\ DAY_ROTATION = RotationOver(ConfigDates)
    /\ SPECIAL_DATES = <<>>
    /\ \E t \in defs : TIMETABLE_DATA = [SampleCatalog EXCEPT !.normal = t]
    /\ SUBJECT_SCHEDULE = SampleSubjects
    /\ InitAt(FirstInstant)

\* a caller invokes TimetableAPI.getCurrent() when the clock reads now
GetCurrentAt(now) ==
    /\ DateDiff(now, clock) >= 0
    /\ clock' = now
    /\ apiCall' = [op |-> "getCurrent", now |-> now]
    /\ apiResponse' = getCurrent(DAY_ROTATION, SPECIAL_DATES, TIMETABLE_DATA,
                                 SUBJECT_SCHEDULE, now)
    /\ UNCHANGED <<cfgVars, appVars, nmVars>>

\* getCurrent() at a reading of the sampled minutes of the first day
ApiGetCurrent == \E now \in Instants : GetCurrentAt(now)

\* the result of updateCurrentPeriod: <<currentPeriodInfo, nextPeriodInfo, shown>>
updateCurrentPeriod(catalog, subjects, type, cycle, previous, isEnabled, perm, list, now) ==
    LET currentTimeStr == formatTimeForComparison(now)
        timetable == Lookup(catalog, type)
        current == findCurrentPeriod(subjects, cycle, currentTimeStr, Val(timetable))
        next == findNextPeriod(subjects, cycle, currentTimeStr, Val(timetable))
    IN  IF type = "none" THEN <<Some(NoSchoolInfo), Null, list>>
        ELSE IF IsNull(timetable) THEN <<Some(MissingDataInfo), Null, list>>
        ELSE <<Some(current), next,
               IF ~IsNull(previous) /\ Val(previous).name # current.name
               THEN notifyPeriodChange(isEnabled, perm, list, Val(previous), current)
               ELSE list>>

\* updateTimetable() when the clock reads now: what it does to the fields of
\* the application and to the notifications
updateTimetable(now) ==
        LET today == formatDateToISO(now)
            type == getTimetableTypeForDate(DAY_ROTATION, SPECIAL_DATES, today)
            cycle == calculateDayCycle(DAY_ROTATION, today)
            upd == updateCurrentPeriod(TIMETABLE_DATA, SUBJECT_SCHEDULE, type, cycle,
                                       currentPeriodInfo, enabled, permission, shown, now)
        IN  /\ DateDiff(now, clock) >= 0
            /\ clock' = now
            /\ appCall' = [op |-> "updateTimetable", now |-> now]
            /\ timetableType' = Some(type)
            /\ dayCycle' = cycle
            /\ currentPeriodInfo' = upd[1]
            /\ nextPeriodInfo' = upd[2]
            /\ hasNotifiedSpecialSchedule' = TRUE
            /\ shown' = IF ~hasNotifiedSpecialSchedule
                        THEN notifySpecialSchedule(enabled, permission, upd[3], type,
                                                   getTimetableTypeText(type))
                        ELSE upd[3]
            /\ UNCHANGED <<cfgVars, apiVars, selectedDate, enabled, permission,
                           reminderMinutes, scheduledNotifications, checkInterval,
                           checkerIntervals, cleanupTimers, localStorage, nmResult, awaitingPrompt,
                           pageVars>>

\* updateTimetable() from the minute timer, or called on its own
UpdateTimetableAt(now) == updateTimetable(now) /\ UNCHANGED timerVars

UpdateTimetable == \E now \in Instants : UpdateTimetableAt(now)

-----------------------------------------------------------------------------
(* Specification SpecLocate: getCurrent over every definition *)

InitLocate == InitLocateWith(Definitions)

NextLocate == ApiGetCurrent

SpecLocate == InitLocate /\ [][NextLocate]_vars

-----------------------------------------------------------------------------
(* Specification SpecDay: getCurrent and the application's own locator, over *)
(* the definitions whose slots do not overlap                              *)

InitDay == InitLocateWith(ValidDefinitions)

NextDay == ApiGetCurrent \/ UpdateTimetable

SpecDay == InitDay /\ [][NextDay]_vars

-----------------------------------------------------------------------------
(* Properties of the variant selection (SpecResolve, SpecCalendar) *)

\* the weekday of a date string: 0 = Sunday .. 6 = Saturday
WeekdayOf(dateStr) == getDay(NewDate(dateStr))

IsParseable(dateStr) == ~isNaN(NewDate(dateStr))

FallsOnWeekend(dateStr) == IsParseable(dateStr) /\ WeekdayOf(dateStr) \in {0, 6}

HasOverride(dateStr) == dateStr \in DOMAIN SPECIAL_DATES

HasCycle(dateStr) == dateStr \in DOMAIN DAY_ROTATION

\* getByDate was the last API call, for a date the predicate P holds of
ApiAsked(P(_)) == apiCall.op = "getByDate" /\ P(apiCall.date)

\* the app last resolved a date the predicate P holds of
AppAsked(P(_)) == ~IsNull(selectedDate) /\ P(Val(selectedDate))

\* C1: a date with a special-date override of tag T resolves to 'special'+T,
\* on any weekday and with or without a day-cycle entry, in getByDate
\* (data.timetableType) and in getTimetableTypeForDate.
C1_OverridePrecedence ==
    /\ ApiAsked(HasOverride) =>
           /\ apiResponse.success
           /\ apiResponse.data.timetableType = "special" \o SPECIAL_DATES[apiCall.date]
    /\ AppAsked(HasOverride) =>
           timetableType = Some("special" \o SPECIAL_DATES[Val(selectedDate)])

C1_IsWeekendOverrideWithCycle(d) ==
    HasOverride(d) /\ HasCycle(d) /\ WeekdayOf(d) = 6

\* an overridden Saturday that also has a day-cycle entry was resolved by both
C1_Witness ==
    /\ ApiAsked(C1_IsWeekendOverrideWithCycle)
    /\ AppAsked(C1_IsWeekendOverrideWithCycle)
    /\ apiResponse.data.timetableType \in {"specialA", "specialB", "specialC"}
    /\ timetableType = Some(apiResponse.data.timetableType)

\* C2 as stated: every Saturday or Sunday resolves to 'none', whatever its
\* table entries.
C2_WeekendIsNone ==
    /\ ApiAsked(FallsOnWeekend) => apiResponse.data.timetableType = "none"
    /\ AppAsked(FallsOnWeekend) => timetableType = Some("none")

C2_IsPlainWeekend(d) == FallsOnWeekend(d) /\ ~HasOverride(d)

\* C2 amended: every Saturday or Sunday that has no special-date override
\* resolves to 'none', regardless of any day-cycle entry.
C2_WeekendWithoutOverrideIsNone ==
    /\ ApiAsked(C2_IsPlainWeekend) => apiResponse.data.timetableType = "none"
    /\ AppAsked(C2_IsPlainWeekend) => timetableType = Some("none")

C2_IsPlainWeekendWithCycle(d) == C2_IsPlainWeekend(d) /\ HasCycle(d)

\* a Sunday or Saturday with a day-cycle entry and no override was resolved
C2_Witness ==
    /\ ApiAsked(C2_IsPlainWeekendWithCycle)
    /\ AppAsked(C2_IsPlainWeekendWithCycle)
    /\ apiResponse.data.timetableType = "none"

C3_IsPlainFriday(d) == IsParseable(d) /\ WeekdayOf(d) = 5 /\ ~HasOverride(d)

\* C3 as stated: every Friday without a special-date override resolves to
\* 'specialB'.
C3_FridayIsSpecialB ==
    /\ ApiAsked(C3_IsPlainFriday) => apiResponse.data.timetableType = "specialB"
    /\ AppAsked(C3_IsPlainFriday) => timetableType = Some("specialB")

C3_IsPlainFridayWithCycle(d) == C3_IsPlainFriday(d) /\ HasCycle(d)

\* C3 amended: every Friday that has a day-cycle entry and no special-date
\* override resolves to 'specialB'.
C3_SchoolFridayIsSpecialB ==
    /\ ApiAsked(C3_IsPlainFridayWithCycle) => apiResponse.data.timetableType = "specialB"
    /\ AppAsked(C3_IsPlainFridayWithCycle) => timetableType = Some("specialB")

\* a Friday with a day-cycle entry and no override was resolved by both
C3_Witness ==
    /\ ApiAsked(C3_IsPlainFridayWithCycle)
    /\ AppAsked(C3_IsPlainFridayWithCycle)
    /\ apiResponse.data.timetableType = "specialB"

\* C4: isNonSchoolDay always returns a boolean, and for a date it returns
\* true exactly when the date is a Saturday/Sunday or has neither a day-cycle
\* entry nor a special-date override.
C4_NonSchoolDayIff ==
    appCall.op = "isNonSchoolDay" =>
        /\ appCall.result \in BOOLEAN
        /\ IsParseable(appCall.date) =>
               (appCall.result <=>
                   \/ FallsOnWeekend(appCall.date)
                   \/ (~HasCycle(appCall.date) /\ ~HasOverride(appCall.date)))

\* isNonSchoolDay answered false for a Friday that has only an override
C4_Witness ==
    /\ appCall.op = "isNonSchoolDay"
    /\ WeekdayOf(appCall.date) = 5
    /\ HasOverride(appCall.date)
    /\ ~HasCycle(appCall.date)
    /\ appCall.result = FALSE

C5_IsPlainMonToThu(d) ==
    IsParseable(d) /\ WeekdayOf(d) \in 1..4 /\ HasCycle(d) /\ ~HasOverride(d)

\* C5: a Monday-to-Thursday date with a day-cycle entry and no override:
\* getByDate returns success with timetableType 'normal' and isSchoolDay
\* true, and getTimetableTypeForDate returns 'normal'.
C5_PlainWeekdayIsNormal ==
    /\ ApiAsked(C5_IsPlainMonToThu) =>
           /\ apiResponse.success
           /\ apiResponse.data.timetableType = "normal"
           /\ apiResponse.data.isSchoolDay
    /\ AppAsked(C5_IsPlainMonToThu) => timetableType = Some("normal")

\* such a date was resolved by both, and the record carries its day cycle
C5_Witness ==
    /\ ApiAsked(C5_IsPlainMonToThu)
    /\ AppAsked(C5_IsPlainMonToThu)
    /\ apiResponse.data.isSchoolDay
    /\ apiResponse.data.dayCycle = Some(DAY_ROTATION[apiCall.date])
    /\ Len(apiResponse.data.schedule) > 0

\* getByDate answered with a day record that is not a school day
C6_NonSchoolRecord ==
    /\ apiCall.op = "getByDate"
    /\ apiResponse.success
    /\ ~apiResponse.data.isSchoolDay

\* C6: a day record with isSchoolDay false has schedule = [], a message and
\* neither a periods nor a breaks count; the message is the weekend message
\* exactly on a Saturday/Sunday and the generic non-school message otherwise.
C6_NonSchoolDayRecord ==
    C6_NonSchoolRecord =>
        /\ apiResponse.data.schedule = <<>>
        /\ "message" \in DOMAIN apiResponse.data
        /\ "periods" \notin DOMAIN apiResponse.data
        /\ "breaks" \notin DOMAIN apiResponse.data
        /\ apiResponse.data.message =
               (IF FallsOnWeekend(apiCall.date) THEN MSG_WEEKEND ELSE MSG_NON_SCHOOL)

\* a Saturday record with the weekend message
C6_Witness ==
    /\ C6_NonSchoolRecord
    /\ WeekdayOf(apiCall.date) = 6
    /\ apiResponse.data.message = MSG_WEEKEND
    /\ apiResponse.data.schedule = <<>>

-----------------------------------------------------------------------------
(* Properties of the period locator (SpecLocate, SpecDay) *)

\* minutes since midnight of an "HH:MM" string
MinuteOf(t) == parseInt(split(t)[1]) * 60 + parseInt(split(t)[2])

\* wall-clock minute of a clock reading
MinuteOfInstant(now) == now.ms \div 60000

\* the ordered schedule of the day of a clock reading
ScheduleAt(now) ==
    getByDate(DAY_ROTATION, SPECIAL_DATES, TIMETABLE_DATA, SUBJECT_SCHEDULE, now,
              formatDateToISO(now)).data.schedule

\* the definition in force on the day of a clock reading (a school day)
DefinitionAt(now) ==
    TIMETABLE_DATA[getTimetableTypeForDate(DAY_ROTATION, SPECIAL_DATES,
                                           formatDateToISO(now))]

\* slot sl holds the minute m, both ends included
HoldsMinute(sl, m) == MinuteOf(sl.start) <= m /\ m <= MinuteOf(sl.end)

StrictlyInside(sl, m) == MinuteOf(sl.start) < m /\ m < MinuteOf(sl.end)

\* getCurrent was the last API call and answered for a school day
GotCurrent == apiCall.op = "getCurrent" /\ apiResponse.data.status # "no-school"

\* updateTimetable was the last application call, on a day with a definition
AppLocated ==
    /\ appCall.op = "updateTimetable"
    /\ ~IsNull(timetableType)
    /\ Val(timetableType) \in DOMAIN TIMETABLE_DATA

\* C7: getCurrent on a school day: currentPeriod is the first slot of the
\* start-ascending schedule whose range holds now (HH:MM compare, both ends
\* included), and is null with status 'free' when no slot holds now; when the
\* slots do not overlap and now is strictly inside exactly one slot, that
\* slot is the current one.
C7_CurrentSlotLookup ==
    GotCurrent =>
        LET sched == ScheduleAt(apiCall.now)
            m == MinuteOfInstant(apiCall.now)
            hits == {i \in 1..Len(sched) : HoldsMinute(sched[i], m)}
            inside == {i \in 1..Len(sched) : StrictlyInside(sched[i], m)}
        IN  /\ hits = {} =>
                   /\ apiResponse.data.currentPeriod = Null
                   /\ apiResponse.data.status = "free"
            /\ hits # {} =>
                   /\ apiResponse.data.currentPeriod = Some(sched[First(hits)])
                   /\ apiResponse.data.status = sched[First(hits)].type
            /\ (NonOverlapping(DefinitionAt(apiCall.now)) /\ Cardinality(inside) = 1) =>
                   \A i \in inside :
                       /\ apiResponse.data.currentPeriod = Some(sched[i])
                       /\ hits = {i}

\* now is strictly inside the second of two slots that do not overlap, and
\* getCurrent answered with that slot
C7_Witness ==
    /\ GotCurrent
    /\ NonOverlapping(DefinitionAt(apiCall.now))
    /\ Len(ScheduleAt(apiCall.now)) = 2
    /\ StrictlyInside(ScheduleAt(apiCall.now)[2], MinuteOfInstant(apiCall.now))
    /\ apiResponse.data.currentPeriod = Some(ScheduleAt(apiCall.now)[2])

\* slot a ends, and slot b starts, at the minute m
SharedBoundary(a, b, m) == MinuteOf(a.end) = m /\ MinuteOf(b.start) = m

SameSlot(info, sl) ==
    info.type = sl.type /\ info.start = sl.start /\ info.end = sl.end

\* C8: when now is at a slot's end time and that time is also the start time
\* of the following slot, the current slot is the ending slot, in getCurrent
\* (with remainingSeconds 0) and in the application's findCurrentPeriod.
C8_BoundaryBelongsToEndingSlot ==
    /\ GotCurrent =>
           LET sched == ScheduleAt(apiCall.now)
               m == MinuteOfInstant(apiCall.now)
           IN  \A i, j \in 1..Len(sched) :
                   SharedBoundary(sched[i], sched[j], m) =>
                       /\ apiResponse.data.currentPeriod = Some(sched[i])
                       /\ apiResponse.data.remainingSeconds = Some(0)
    /\ AppLocated =>
           LET sched == ScheduleAt(appCall.now)
               m == MinuteOfInstant(appCall.now)
           IN  \A i, j \in 1..Len(sched) :
                   SharedBoundary(sched[i], sched[j], m) =>
                       SameSlot(Val(currentPeriodInfo), sched[i])

\* a slot of the schedule starts after the clock reading now
StartsAfter(sl, now) == MinuteOf(sl.start) * 60000 > now.ms

\* C9: nextPeriod is the first slot, in start-ascending order, that starts
\* strictly later than now, and null when no slot starts after now; in
\* getCurrent and in the application's findNextPeriod.
C9_NextSlotLookup ==
    /\ GotCurrent =>
           LET sched == ScheduleAt(apiCall.now)
               later == {i \in 1..Len(sched) : StartsAfter(sched[i], apiCall.now)}
           IN  IF later = {} THEN apiResponse.data.nextPeriod = Null
               ELSE apiResponse.data.nextPeriod = Some(sched[First(later)])
    /\ AppLocated =>
           LET sched == ScheduleAt(appCall.now)
               later == {i \in 1..Len(sched) : StartsAfter(sched[i], appCall.now)}
           IN  IF later = {} THEN nextPeriodInfo = Null
               ELSE /\ ~IsNull(nextPeriodInfo)
                    /\ SameSlot(Val(nextPeriodInfo), sched[First(later)])
                    /\ Val(nextPeriodInfo).name = sched[First(later)].name

\* both locators answered, during the first of two slots, with the second
\* slot as the next one
C9_Witness ==
    /\ GotCurrent
    /\ AppLocated
    /\ Len(ScheduleAt(apiCall.now)) = 2
    /\ apiResponse.data.currentPeriod = Some(ScheduleAt(apiCall.now)[1])
    /\ apiResponse.data.nextPeriod = Some(ScheduleAt(apiCall.now)[2])
    /\ ~IsNull(nextPeriodInfo)
    /\ SameSlot(Val(nextPeriodInfo), ScheduleAt(appCall.now)[2])

\* C10: in a getCurrent result for a school day remainingSeconds is null
\* exactly when currentPeriod is null; otherwise it is a whole number >= 0,
\* the whole seconds of max(0, end of the current slot today - now).
C10_RemainingSeconds ==
    GotCurrent =>
        LET cur == apiResponse.data.currentPeriod
            rem == apiResponse.data.remainingSeconds
            left == MinuteOf(Val(cur).end) * 60000 - apiCall.now.ms
        IN  /\ IsNull(rem) <=> IsNull(cur)
            /\ ~IsNull(cur) =>
                   /\ Val(rem) \in Nat
                   /\ IF left <= 0 THEN Val(rem) = 0
                      ELSE Val(rem) * 1000 <= left /\ left < (Val(rem) + 1) * 1000

\* now is past the end of the current slot, within its last minute, and
\* remainingSeconds is 0
C10_Witness ==
    /\ GotCurrent
    /\ ~IsNull(apiResponse.data.currentPeriod)
    /\ MinuteOf(Val(apiResponse.data.currentPeriod).end) * 60000 < apiCall.now.ms
    /\ apiResponse.data.remainingSeconds = Some(0)

\* the answer getCurrent gives at the clock reading t under the loaded tables
AnswerAt(t) ==
    getCurrent(DAY_ROTATION, SPECIAL_DATES, TIMETABLE_DATA, SUBJECT_SCHEDULE, t).data

\* a step from one getCurrent answer to a later one, a whole second or more
\* apart, with the same slot current in both
SameSlotLater ==
    /\ GotCurrent
    /\ GotCurrent'
    /\ DateDiff(apiCall'.now, apiCall.now) >= 1000
    /\ ~IsNull(apiResponse.data.currentPeriod)
    /\ apiResponse'.data.currentPeriod = apiResponse.data.currentPeriod

\* C11 as stated: between any two answers a whole second or more apart with
\* the same slot current, remainingSeconds is strictly smaller in the later.
C11_StrictlyDecreasesWhileCurrent ==
    [][SameSlotLater =>
          Val(apiResponse'.data.remainingSeconds) < Val(apiResponse.data.remainingSeconds)]_vars

\* C11: while one slot stays current remainingSeconds never grows as now
\* advances; between two answers a whole second or more apart it is strictly
\* smaller in the later one as long as the earlier one was above 0; it is 0
\* exactly when less than a second is left to the slot's end or the end has
\* passed, through the end minute.
C11_DecreasesUntilZero ==
    /\ [][SameSlotLater =>
            /\ Val(apiResponse'.data.remainingSeconds)
                   <= Val(apiResponse.data.remainingSeconds)
            /\ Val(apiResponse.data.remainingSeconds) > 0 =>
                   Val(apiResponse'.data.remainingSeconds)
                       < Val(apiResponse.data.remainingSeconds)]_vars
    /\ [](GotCurrent /\ ~IsNull(apiResponse.data.currentPeriod) =>
             (MinuteOf(Val(apiResponse.data.currentPeriod).end) * 60000 - apiCall.now.ms < 1000
                  <=> apiResponse.data.remainingSeconds = Some(0)))

\* the last answer is 0 for a slot that was also current, with time left, at
\* an earlier sampled reading
C11_Witness ==
    /\ GotCurrent
    /\ apiResponse.data.remainingSeconds = Some(0)
    /\ \E t \in Instants :
           /\ DateDiff(apiCall.now, t) >= 1000
           /\ AnswerAt(t).currentPeriod = apiResponse.data.currentPeriod
           /\ Val(AnswerAt(t).remainingSeconds) > 0

-----------------------------------------------------------------------------
(* Specification SpecToday: getCurrent on any day of any calendar *)

\* times of day read on every configured date: inside a slot of every sample
\* definition, at a shared slot boundary, and after the last slot
DayTimes == {<<8, 45>>, <<9, 20>>, <<12, 0>>}

DayInstants ==
    {setHours(NewDate(d), t[1], t[2]) : d \in ConfigDates, t \in DayTimes}

InitToday ==
    /\ DAY_ROTATION \in RotationTables
    /\ SPECIAL_DATES \in SpecialTables
    /\ TIMETABLE_DATA = SampleCatalog
    /\ SUBJECT_SCHEDULE = SampleSubjects
    /\ InitAt(NewDate(FirstDate))

\* getCurrent() at a sampled time of any configured date
ApiGetCurrentAnyDay == \E now \in DayInstants : GetCurrentAt(now)

NextToday == ApiGetCurrentAnyDay

SpecToday == InitToday /\ [][NextToday]_vars

\* the date of the last getCurrent call
Today == formatDateToISO(apiCall.now)

\* a date that resolves to no timetable: no override, and a weekend or no
\* day-cycle entry
ResolvesToNone(dateStr) ==
    ~HasOverride(dateStr) /\ (FallsOnWeekend(dateStr) \/ ~HasCycle(dateStr))

\* C12: when today resolves to a non-school day, getCurrent returns
\* success:true with status 'no-school' and currentPeriod and nextPeriod
\* null, at any time of day.
C12_NoSchoolAnswer ==
    (apiCall.op = "getCurrent" /\ ResolvesToNone(Today)) =>
        /\ apiResponse.success
        /\ apiResponse.data.status = "no-school"
        /\ apiResponse.data.currentPeriod = Null
        /\ apiResponse.data.nextPeriod = Null
        /\ apiResponse.data.date = Today

\* getCurrent answered 'no-school' on a Saturday that has a day-cycle entry,
\* at a time inside a slot of every definition
C12_Witness ==
    /\ apiCall.op = "getCurrent"
    /\ WeekdayOf(Today) = 6
    /\ HasCycle(Today)
    /\ ~HasOverride(Today)
    /\ formatTimeForComparison(apiCall.now) = HHMM(8, 45)
    /\ apiResponse.data.status = "no-school"

-----------------------------------------------------------------------------
(* Specification SpecBuild: getByDate over every definition *)

InitBuild == InitLocateWith(Definitions)

NextBuild == ApiGetByDate

SpecBuild == InitBuild /\ [][NextBuild]_vars

\* getByDate was the last API call and answered with the slots of a definition
GotSchedule ==
    /\ apiCall.op = "getByDate"
    /\ apiResponse.success
    /\ apiResponse.data.timetableType \in DOMAIN TIMETABLE_DATA

\* the definition the last getByDate answer was built from
DefinitionUsed == TIMETABLE_DATA[apiResponse.data.timetableType]

\* the place of a slot in catalog order: the assembly, then the periods in
\* definition order, then the breaks in definition order
CatalogPlace(timetable, sl) ==
    IF sl.type = "assembly" THEN 0
    ELSE IF sl.type = "period"
    THEN CHOOSE n \in 1..Len(timetable.periods) : sl.displayName \in {PeriodName(n), PeriodDisplayName(n)}
    ELSE Len(timetable.periods)
         + (CHOOSE n \in 1..Len(timetable.breaks) : timetable.breaks[n].name = sl.displayName)

\* a list of slots is in ascending order of start, equal starts in catalog order
SortedAndStable(timetable, list) ==
    \A i, j \in 1..Len(list) :
        i < j =>
            /\ MinuteOf(list[i].start) <= MinuteOf(list[j].start)
            /\ MinuteOf(list[i].start) = MinuteOf(list[j].start) =>
                   CatalogPlace(timetable, list[i]) < CatalogPlace(timetable, list[j])

\* C13: for any timetable definition the slots come out sorted by start time
\* ascending, and slots with equal start keep catalog order (assembly, periods
\* in definition order, breaks in definition order); in buildSchedule, and in
\* the application's buildScheduleItems.
C13_SortedStable ==
    GotSchedule =>
        /\ SortedAndStable(DefinitionUsed, apiResponse.data.schedule)
        /\ SortedAndStable(DefinitionUsed,
                           buildScheduleItems(SUBJECT_SCHEDULE, apiResponse.data.dayCycle,
                                              DefinitionUsed))

\* a period and a break of one definition start together and end apart, and
\* the answer lists the period first
C13_Witness ==
    /\ GotSchedule
    /\ Len(apiResponse.data.schedule) = 2
    /\ apiResponse.data.schedule[1].type = "period"
    /\ apiResponse.data.schedule[2].type = "break"
    /\ apiResponse.data.schedule[1].start = apiResponse.data.schedule[2].start
    /\ apiResponse.data.schedule[1].end # apiResponse.data.schedule[2].end

\* the slots of a kind in a list, in list order
OfType(list, kind) == SelectSeq(list, LAMBDA sl : sl.type = kind)

\* C14: the schedule holds exactly one slot for the assembly if present, one
\* per period and one per break and nothing else; the period slots carry the
\* numbers 1..N in definition order; in a school-day record from getByDate
\* 'periods' is the number of 'period' slots, 'breaks' the number of 'break'
\* slots and the schedule's length is periods + breaks + (1 if the assembly
\* is present).
C14_OneSlotPerEntry ==
    GotSchedule =>
        LET t == DefinitionUsed
            list == apiResponse.data.schedule
            hasAssembly == ~IsNull(t.preSchoolAssembly)
        IN  /\ \A i \in 1..Len(list) : list[i].type \in {"assembly", "period", "break"}
            /\ Len(OfType(list, "assembly")) = (IF hasAssembly THEN 1 ELSE 0)
            /\ hasAssembly =>
                   /\ OfType(list, "assembly")[1].start = Val(t.preSchoolAssembly).start
                   /\ OfType(list, "assembly")[1].end = Val(t.preSchoolAssembly).end
            /\ Len(OfType(list, "period")) = Len(t.periods)
            /\ \A n \in 1..Len(t.periods) :
                   \E i \in 1..Len(list) :
                       /\ list[i].type = "period"
                       /\ list[i].periodNumber = n
                       /\ list[i].name = PeriodName(n)
                       /\ list[i].start = t.periods[n].start
                       /\ list[i].end = t.periods[n].end
            /\ Len(OfType(list, "break")) = Len(t.breaks)
            /\ \A n \in 1..Len(t.breaks) :
                   \E i \in 1..Len(list) :
                       /\ list[i].type = "break"
                       /\ list[i].name = t.breaks[n].name
                       /\ list[i].start = t.breaks[n].start
                       /\ list[i].end = t.breaks[n].end
            /\ apiResponse.data.periods = Len(OfType(list, "period"))
            /\ apiResponse.data.breaks = Len(OfType(list, "break"))
            /\ Len(list) = apiResponse.data.periods + apiResponse.data.breaks
                               + (IF hasAssembly THEN 1 ELSE 0)
            /\ ("preSchoolAssembly" \in DOMAIN apiResponse.data) <=> hasAssembly

\* the answer for a definition whose second period starts before its first:
\* the schedule lists period 2, then period 1
C14_Witness ==
    /\ GotSchedule
    /\ Len(DefinitionUsed.periods) = 2
    /\ Len(apiResponse.data.schedule) = 2
    /\ apiResponse.data.schedule[1].periodNumber = 2
    /\ apiResponse.data.schedule[2].periodNumber = 1
    /\ apiResponse.data.periods = 2

-----------------------------------------------------------------------------
(* Properties of subject resolution (SpecResolve) *)

\* the label configured for period n of day cycle c, if there is a non-empty one
ConfiguredLabel(c, n) ==
    IF /\ ~IsNull(c)
       /\ Val(c) \in DOMAIN SUBJECT_SCHEDULE
       /\ n \in DOMAIN SUBJECT_SCHEDULE[Val(c)]
       /\ SUBJECT_SCHEDULE[Val(c)][n] # ""
    THEN Some(SUBJECT_SCHEDULE[Val(c)][n])
    ELSE Null

\* subject is what period n of day cycle c must show
SubjectRule(c, n, subject) ==
    IF IsNull(ConfiguredLabel(c, n)) THEN subject = SUBJECT_PLACEHOLDER
    ELSE subject = Val(ConfiguredLabel(c, n))

\* C15: for any day cycle, absent included, and any period number, a period
\* slot's subject is the configured label if there is one and the generic
\* placeholder otherwise, never an empty or undefined subject; in the slots of
\* getByDate and in the record of findCurrentPeriod.
C15_SubjectTotal ==
    GotSchedule =>
        LET c == apiResponse.data.dayCycle
            list == apiResponse.data.schedule
        IN  /\ \A i \in 1..Len(list) :
                   list[i].type = "period" =>
                       /\ SubjectRule(c, list[i].periodNumber, list[i].subject)
                       /\ list[i].subject # ""
            /\ \A n \in 1..Len(DefinitionUsed.periods) :
                   LET info == findCurrentPeriod(SUBJECT_SCHEDULE, c,
                                                 DefinitionUsed.periods[n].end, DefinitionUsed)
                   IN  \E k \in 1..n :
                           /\ info.name = PeriodName(k)
                           /\ SubjectRule(c, k, info.subject)

\* the answer for an overridden date without a day-cycle entry: every period
\* shows the placeholder
C15_Witness ==
    /\ GotSchedule
    /\ IsNull(apiResponse.data.dayCycle)
    /\ Len(apiResponse.data.schedule) >= 2
    /\ \A i \in 1..Len(apiResponse.data.schedule) :
           apiResponse.data.schedule[i].type = "period" =>
               apiResponse.data.schedule[i].subject = SUBJECT_PLACEHOLDER

-----------------------------------------------------------------------------
(* Properties of the error envelope (SpecResolve) *)

\* getByDate was the last API call, for a string that is not a date
AskedUnparseable == apiCall.op = "getByDate" /\ NewDate(apiCall.date) = InvalidDate

\* C16: getByDate with a date string that cannot be parsed returns the
\* envelope {success: false, timestamp, error: {message}} with the message
\* 'Invalid date format. Use YYYY-MM-DD' and without a data field; a string
\* that can be parsed is answered with success: true and a data field.
C16_InvalidDateEnvelope ==
    /\ AskedUnparseable =>
           /\ DOMAIN apiResponse = {"success", "timestamp", "error"}
           /\ apiResponse.success = FALSE
           /\ apiResponse.timestamp = clock
           /\ DOMAIN apiResponse.error = {"message"}
           /\ apiResponse.error.message = "Invalid date format. Use YYYY-MM-DD"
    /\ (apiCall.op = "getByDate" /\ ~AskedUnparseable) =>
           /\ apiResponse.success
           /\ DOMAIN apiResponse = {"success", "timestamp", "data"}

\* getByDate was asked for the 32nd of December and answered with the error
C16_Witness ==
    /\ AskedUnparseable
    /\ apiCall.date = BadDate
    /\ ~apiResponse.success

-----------------------------------------------------------------------------
(* Specification SpecGap: overrides with and without a definition *)

\* every configured date has a day-cycle entry; any table of overrides
InitGap ==
    /\ DAY_ROTATION = RotationOver(ConfigDates)
    /\ SPECIAL_DATES \in SpecialTables
    /\ TIMETABLE_DATA = SampleCatalog
    /\ SUBJECT_SCHEDULE = SampleSubjects
    /\ InitAt(NewDate(FirstDate))

NextGap == ApiGetByDate \/ ApiGetCurrentAnyDay

SpecGap == InitGap /\ [][NextGap]_vars

\* a date whose override names a variant that has no definition in the catalog
GapDay(dateStr) ==
    /\ HasOverride(dateStr)
    /\ ("special" \o SPECIAL_DATES[dateStr]) \notin DOMAIN TIMETABLE_DATA

\* C17: when a date resolves to a variant without a definition in the
\* catalog, getByDate returns success: true with an empty schedule and a
\* message, and getCurrent on such a day returns the complete record with
\* currentPeriod and nextPeriod null (status 'free', remainingSeconds null).
C17_MissingDefinition ==
    /\ ApiAsked(GapDay) =>
           /\ apiResponse.success
           /\ apiResponse.data.timetableType = "special" \o SPECIAL_DATES[apiCall.date]
           /\ apiResponse.data.schedule = <<>>
           /\ "message" \in DOMAIN apiResponse.data
           /\ apiResponse.data.message \in {MSG_WEEKEND, MSG_NON_SCHOOL}
    /\ (apiCall.op = "getCurrent" /\ GapDay(Today)) =>
           /\ apiResponse.success
           /\ DOMAIN apiResponse.data =
                  {"date", "currentTime", "dayCycle", "status", "currentPeriod",
                   "nextPeriod", "remainingSeconds", "remainingFormatted"}
           /\ apiResponse.data.status = "free"
           /\ apiResponse.data.currentPeriod = Null
           /\ apiResponse.data.nextPeriod = Null
           /\ apiResponse.data.remainingSeconds = Null

\* getCurrent answered 'free' at 08:45 of a weekday whose override has no
\* definition
C17_Witness ==
    /\ apiCall.op = "getCurrent"
    /\ GapDay(Today)
    /\ WeekdayOf(Today) \in 1..5
    /\ formatTimeForComparison(apiCall.now) = HHMM(8, 45)
    /\ apiResponse.data.status = "free"

-----------------------------------------------------------------------------
(* Specification SpecWeek: the week that holds today *)

\* date.setDate(date.getDate() + n): n days later, same time of day
setDate(date, n) == [date EXCEPT !.day = date.day + n]

MondayOffset_SundayFirst(dayOfWeek) == dayOfWeek - 1

\* dayOfWeek === 0 ? 6 : dayOfWeek - 1
MondayOffset(dayOfWeek) == IF dayOfWeek = 0 THEN 6 ELSE dayOfWeek - 1

\* TimetableAPI.getWeek(), called at the instant today
getWeek(rotation, specials, catalog, subjects, today) ==
    LET monday == setDate(today, 0 - MondayOffset(getDay(today)))
        weekData == [i \in 1..7 |->
                        getByDate(rotation, specials, catalog, subjects, today,
                                  formatDateToISO(setDate(monday, i - 1)))]
    IN  [success |-> TRUE,
         timestamp |-> today,
         data |-> [weekStart |-> formatDateToISO(monday),
                   weekEnd |-> formatDateToISO(AddMillis(monday, 6 * 24 * 60 * 60 * 1000)),
                   days |-> [i \in 1..7 |-> weekData[i].data]]]

\* the first and the last millisecond-sample of each day of the span
WeekInstants ==
    {[day |-> DayNumber(FirstDate) + i, ms |-> t] :
        i \in 0..(WeekSpan - 1), t \in {0, 86399500}}

InitWeek ==
    /\ DAY_ROTATION = RotationOver(ConfigDates)
    /\ SPECIAL_DATES \in SpecialTables
    /\ TIMETABLE_DATA = SampleCatalog
    /\ SUBJECT_SCHEDULE = SampleSubjects
    /\ InitAt(NewDate(FirstDate))

\* a caller invokes TimetableAPI.getWeek()
ApiGetWeek ==
    \E now \in WeekInstants :
        /\ DateDiff(now, clock) >= 0
        /\ clock' = now
        /\ apiCall' = [op |-> "getWeek", now |-> now]
        /\ apiResponse' = getWeek(DAY_ROTATION, SPECIAL_DATES, TIMETABLE_DATA,
                                  SUBJECT_SCHEDULE, now)
        /\ UNCHANGED <<cfgVars, appVars, nmVars>>

NextWeek == ApiGetWeek

SpecWeek == InitWeek /\ [][NextWeek]_vars

GotWeek == apiCall.op = "getWeek"

\* C18: getWeek returns exactly 7 day records, each the getByDate record of
\* its date, for 7 consecutive calendar dates of which the first is a Monday
\* and one is today (six days after the first when today is a Sunday);
\* weekStart is that Monday and weekEnd the Sunday after it.
C18_WeekOfToday ==
    GotWeek =>
        LET days == apiResponse.data.days
            first == DayNumber(days[1].date)
        IN  /\ apiResponse.success
            /\ Len(days) = 7
            /\ \A i \in 1..7 :
                   /\ DayNumber(days[i].date) = first + i - 1
                   /\ days[i] = getByDate(DAY_ROTATION, SPECIAL_DATES, TIMETABLE_DATA,
                                          SUBJECT_SCHEDULE, apiCall.now, days[i].date).data
            /\ WeekdayOf(days[1].date) = 1
            /\ \E i \in 1..7 : days[i].date = Today
            /\ WeekdayOf(Today) = 0 => first = DayNumber(Today) - 6
            /\ apiResponse.data.weekStart = days[1].date
            /\ apiResponse.data.weekEnd = days[7].date
            /\ WeekdayOf(apiResponse.data.weekEnd) = 0

\* the week asked for late on a Sunday: today is its last record
C18_Witness ==
    /\ GotWeek
    /\ getDay(apiCall.now) = 0
    /\ apiCall.now.ms > 0
    /\ apiResponse.data.days[7].date = Today
    /\ apiResponse.data.weekEnd = Today

-----------------------------------------------------------------------------
(* Specifications SpecRemind and SpecGuard: the class reminders *)

\* readings of the clock on the first day (normal timetable: period-1 starts
\* at 08:40, the recess at 10:00, period-3 at 10:15), as <<h, m, s>>
RemindTimes ==
    {<<8, 35, 30>>, <<8, 39, 0>>, <<8, 39, 30>>, <<8, 41, 0>>, <<9, 58, 0>>,
     <<10, 12, 0>>, <<10, 16, 0>>}

RemindInstants ==
    {AddMillis(setHours(NewDate(FirstDate), t[1], t[2]), t[3] * 1000) : t \in RemindTimes}

\* values of 'reminder-minutes' found in localStorage by the constructor
StoredLeads == {1, 3, 5}

\* values the settings dialog passes to setReminderTime
LeadInputs == {0, 3}

\* the id setInterval or requestAnimationFrame returns: one that no live
\* timer has
FreshId(used) == CHOOSE id \in 1..(Cardinality(used) + 1) : id \notin used

\* the field holding a timer id and the timers the browser keeps alive
NoChecker == [field |-> Null, live |-> {}]

Checker == [field |-> checkInterval, live |-> checkerIntervals]

SetChecker(c) ==
    /\ checkInterval' = c.field
    /\ checkerIntervals' = c.live

\* clearInterval(id)
clearInterval(live, id) == live \ {id}

startNotificationChecker_KeepsPrevious(c) ==
    [field |-> Some(FreshId(c.live)), live |-> c.live \cup {FreshId(c.live)}]

\* startNotificationChecker(): the timers; its immediate check is CheckAt
startNotificationChecker(c) ==
    LET cleared == IF ~IsNull(c.field) THEN clearInterval(c.live, Val(c.field)) ELSE c.live
        id == FreshId(cleared)
    IN  [field |-> Some(id), live |-> cleared \cup {id}]

\* stopNotificationChecker()
stopNotificationChecker_LeavesInterval(c) == c

stopNotificationChecker(c) ==
    IF ~IsNull(c.field)
    THEN [field |-> Null, live |-> clearInterval(c.live, Val(c.field))]
    ELSE c

\* the state after the scripts have loaded and init() has run at 08:00,
\* when the next slot is the assembly and the first check shows nothing
InitBrowser(specials, supported, mobile, perm, items) ==
    /\ DAY_ROTATION = RotationOver(ConfigDates)
    /\ SPECIAL_DATES = specials
    /\ TIMETABLE_DATA = SampleCatalog
    /\ SUBJECT_SCHEDULE = SampleSubjects
    /\ clock = setHours(NewDate(FirstDate), 8, 0)
    /\ apiCall = NoCall
    /\ apiResponse = Null
    /\ appCall = NoCall
    /\ selectedDate = Null
    /\ timetableType = Null
    /\ dayCycle = Null
    /\ currentPeriodInfo = Null
    /\ nextPeriodInfo = Null
    /\ hasNotifiedSpecialSchedule = FALSE
    /\ documentHidden = FALSE
    /\ mobileAgent = mobile
    /\ locationSearch = NoQuery
    /\ datePickerValue = Some(formatDateToISO(clock))
    /\ readyState = "complete"
    /\ windowApiResponse = Null
    /\ rawBody = Null
    /\ isPageVisible = TRUE
    /\ currentViewMode = "today"
    /\ lastUpdateTime = clock
    /\ realTimeUpdateInterval = Null
    /\ animationFrameId = Null
    /\ tickIntervals = {}
    /\ frameRequests = {}
    /\ notificationSupported = supported
    /\ localStorage = items
    /\ enabled = StoredEnabled(localStorage)
    /\ permission = perm
    /\ reminderMinutes = StoredLead(localStorage)
    /\ scheduledNotifications = {}
    /\ \E started \in {IF enabled /\ perm = "granted"
                        THEN startNotificationChecker(NoChecker)
                        ELSE NoChecker} :
           /\ checkInterval = started.field
           /\ checkerIntervals = started.live
    /\ cleanupTimers = {}
    /\ nmResult = Null
    /\ awaitingPrompt = NoPrompt
    /\ shown = <<>>

\* ... on a desktop browser
InitStored(specials, supported, perm, items) ==
    InitBrowser(specials, supported, FALSE, perm, items)

\* ... with the preference stored as isEnabled and a stored lead time
InitSession(specials, supported, isEnabled, perm) ==
    \E lead \in StoredLeads :
        InitStored(specials, supported, perm,
                   [enabled |-> Some(IF isEnabled THEN "true" ELSE "false"),
                    minutes |-> Some(NumberString(lead))])

\* ... in a browser that has notifications
InitManagerWith(specials, isEnabled, perm) == InitSession(specials, TRUE, isEnabled, perm)

\* ... on days without override
InitManager(isEnabled, perm) == InitManagerWith(<<>>, isEnabled, perm)

\* checkUpcomingClasses() runs when the clock reads now, with the preference
\* and the permission as given and list the notifications shown so far
CheckAt(now, isEnabled, perm, list) ==
    \E current \in {getCurrent(DAY_ROTATION, SPECIAL_DATES, TIMETABLE_DATA,
                               SUBJECT_SCHEDULE, now)} :
        \E after \in {checkUpcomingClasses(current, isEnabled, perm, reminderMinutes,
                                           scheduledNotifications, cleanupTimers,
                                           list, now)} :
            /\ Len(after.shown) <= MaxShown
            /\ clock' = now
            /\ IF isEnabled /\ perm = "granted"
               THEN /\ apiCall' = [op |-> "getCurrent", now |-> now]
                    /\ apiResponse' = current
               ELSE UNCHANGED apiVars
            /\ scheduledNotifications' = after.scheduled
            /\ cleanupTimers' = after.timers
            /\ shown' = after.shown

\* the callback of the 30-second interval of startNotificationChecker
IntervalTick ==
    \E now \in RemindInstants :
        /\ checkerIntervals # {}
        /\ DateDiff(now, clock) >= 0
        /\ CheckAt(now, enabled, permission, shown)
        /\ UNCHANGED <<cfgVars, appVars, enabled, permission, reminderMinutes, checkInterval,
                       checkerIntervals, localStorage, nmResult, awaitingPrompt>>

\* a callback set by setTimeout in checkUpcomingClasses runs, at or after the
\* time it is due
CleanupTimer ==
    \E t \in cleanupTimers, now \in RemindInstants :
        /\ DateDiff(now, clock) >= 0
        /\ DateDiff(now, t.due) >= 0
        /\ clock' = now
        /\ scheduledNotifications' = scheduledNotifications \ {t.key}
        /\ cleanupTimers' = cleanupTimers \ {t}
        /\ UNCHANGED <<cfgVars, apiVars, appVars, enabled, permission, reminderMinutes,
                       checkInterval, checkerIntervals, localStorage, nmResult, awaitingPrompt, shown>>

\* what the browser's permission prompt can do: Notification.requestPermission()
\* resolves to one of the three values or is rejected
PromptOutcomes == {"granted", "denied", "default", "rejected"}

requestPermission_DismissalSucceeds(supported, perm, outcome) ==
    IF supported /\ perm = "default" /\ outcome # "rejected"
    THEN [result |-> [success |-> TRUE, permission |-> outcome],
          permission |-> outcome, tested |-> outcome = "granted"]
    ELSE [result |-> [success |-> perm = "granted" /\ supported, reason |-> perm],
          permission |-> perm, tested |-> FALSE]

\* requestPermission(): the result, the permission afterwards and whether
\* showTestNotification() was called
requestPermission(supported, perm, outcome) ==
    IF ~supported
    THEN [result |-> [success |-> FALSE, reason |-> "not-supported"],
          permission |-> perm, tested |-> FALSE]
    ELSE IF perm = "granted"
    THEN [result |-> [success |-> TRUE, permission |-> "granted"],
          permission |-> perm, tested |-> FALSE]
    ELSE IF perm = "denied"
    THEN [result |-> [success |-> FALSE, reason |-> "denied", message |-> "blocked"],
          permission |-> perm, tested |-> FALSE]
    ELSE IF outcome = "rejected"
    THEN [result |-> [success |-> FALSE, reason |-> "error", message |-> "error.message"],
          permission |-> perm, tested |-> FALSE]
    ELSE IF outcome = "granted"
    THEN [result |-> [success |-> TRUE, permission |-> "granted"],
          permission |-> outcome, tested |-> TRUE]
    ELSE [result |-> [success |-> FALSE, reason |-> outcome],
          permission |-> outcome, tested |-> FALSE]

\* enable(): requestPermission(), where the browser's prompt ends with outcome
\* when the permission is still 'default', then startNotificationChecker()
Enable ==
    \E now \in RemindInstants, outcome \in PromptOutcomes :
        LET permResult == requestPermission(notificationSupported, permission, outcome)
            tested == IF permResult.tested
                      THEN show(permResult.permission, shown,
                                [tag |-> "test-notification", name |-> "enabled",
                                 body |-> "reminders"])
                      ELSE shown
        IN  /\ DateDiff(now, clock) >= 0
            /\ permission' = permResult.permission
            /\ IF permResult.result.success
               THEN /\ enabled' = TRUE
                    /\ localStorage' = [localStorage EXCEPT !.enabled = Some("true")]
                    /\ SetChecker(startNotificationChecker(Checker))
                    /\ CheckAt(now, TRUE, permResult.permission, tested)
                    /\ nmResult' = Some([success |-> TRUE])
               ELSE /\ clock' = now
                    /\ nmResult' = Some(permResult.result)
                    /\ UNCHANGED <<apiVars, enabled, localStorage, checkInterval,
                                   checkerIntervals, scheduledNotifications,
                                   cleanupTimers, shown>>
            /\ UNCHANGED <<cfgVars, appVars, reminderMinutes, awaitingPrompt>>

\* a caller invokes requestPermission()
RequestPermission ==
    \E outcome \in PromptOutcomes :
        LET permResult == requestPermission(notificationSupported, permission, outcome)
        IN  /\ Len(shown) < MaxShown
            /\ permission' = permResult.permission
            /\ shown' = IF permResult.tested
                        THEN show(permResult.permission, shown,
                                  [tag |-> "test-notification", name |-> "enabled",
                                   body |-> "reminders"])
                        ELSE shown
            /\ nmResult' = Some(permResult.result)
            /\ UNCHANGED <<cfgVars, clock, apiVars, appVars, enabled, reminderMinutes,
                           scheduledNotifications, checkInterval, checkerIntervals,
                           cleanupTimers, localStorage, awaitingPrompt>>

\* disable(): stopNotificationChecker() and clearAllScheduled()
Disable ==
    /\ enabled' = FALSE
    /\ localStorage' = [localStorage EXCEPT !.enabled = Some("false")]
    /\ SetChecker(stopNotificationChecker(Checker))
    /\ scheduledNotifications' = {}
    /\ nmResult' = Some([success |-> TRUE])
    /\ awaitingPrompt' = Overtaken(awaitingPrompt)
    /\ UNCHANGED <<cfgVars, clock, apiVars, appVars, permission, reminderMinutes,
                   cleanupTimers, shown>>

\* setReminderTime(minutes)
SetReminderTimeTo(minutes) ==
    /\ reminderMinutes' = ClampLead(minutes)
    /\ localStorage' = [localStorage EXCEPT !.minutes = Some(NumberString(reminderMinutes'))]
    /\ UNCHANGED <<cfgVars, clock, apiVars, appVars, enabled, permission,
                   scheduledNotifications, checkInterval, checkerIntervals, cleanupTimers,
                   nmResult, awaitingPrompt, shown>>

SetReminderTime == \E minutes \in LeadInputs : SetReminderTimeTo(minutes)

\* the checker runs with the stored preference enabled and the permission granted
InitRemind == InitManager(TRUE, "granted")

NextRemind == IntervalTick \/ CleanupTimer

SpecRemind == InitRemind /\ [][NextRemind]_vars

\* any stored preference and any permission; the user toggles the reminders
\* and sets the lead time
InitGuard ==
    \E isEnabled \in BOOLEAN, perm \in {"default", "granted", "denied"} :
        InitManager(isEnabled, perm)

NextGuard == IntervalTick \/ CleanupTimer \/ Enable \/ Disable \/ SetReminderTime

SpecGuard == InitGuard /\ [][NextGuard]_vars

\* the step shows a class reminder
ReminderFires ==
    /\ Len(shown') > Len(shown)
    /\ shown'[Len(shown')].tag = "class-reminder"

\* whole minutes from the instant now to the wall-clock time start
WholeMinutesTo(start, now) == (MinuteOf(start) * 60000 - now.ms) \div 60000

\* C19: a class reminder is shown only by a check that runs with reminders
\* enabled and permission 'granted', for the upcoming slot of type period,
\* with 0 < whole minutes until its start <= reminderMinutes, and with the
\* slot's key (start, name) not in the fired set before the check (the check
\* puts it there).
C19_ReminderGuard ==
    [][ReminderFires =>
          LET reminder == shown'[Len(shown')]
              key == <<reminder.start, reminder.name>>
              minutes == WholeMinutesTo(reminder.start, clock')
          IN  /\ enabled'
              /\ permission' = "granted"
              /\ apiCall'.op = "getCurrent"
              /\ apiCall'.now = clock'
              /\ ~IsNull(apiResponse'.data.nextPeriod)
              /\ Val(apiResponse'.data.nextPeriod).type = "period"
              /\ Val(apiResponse'.data.nextPeriod).start = reminder.start
              /\ Val(apiResponse'.data.nextPeriod).name = reminder.name
              /\ reminder.minutes = minutes
              /\ 0 < minutes
              /\ minutes <= reminderMinutes
              /\ reminderMinutes' = reminderMinutes
              /\ key \notin scheduledNotifications
              /\ key \in scheduledNotifications']_vars

\* a reminder for period-3 has been shown with lead time 3, after the user
\* switched the reminders off and on again
C19_Witness ==
    /\ shown # <<>>
    /\ shown[Len(shown)].tag = "class-reminder"
    /\ shown[Len(shown)].start = HHMM(10, 15)
    /\ shown[Len(shown)].minutes = 3
    /\ reminderMinutes = 3
    /\ \E i \in 1..Len(shown) : shown[i].tag = "test-notification"

\* the reminders shown for the slot key <<start, name>>
RemindersFor(key) ==
    SelectSeq(shown, LAMBDA n : n.tag = "class-reminder" /\ <<n.start, n.name>> = key)

\* the last step was a check that found the upcoming slot within the lead time
CheckedSlotWithinLead ==
    /\ apiCall.op = "getCurrent"
    /\ apiCall.now = clock
    /\ ~IsNull(apiResponse.data.nextPeriod)
    /\ WholeMinutesTo(Val(apiResponse.data.nextPeriod).start, clock) \in 1..reminderMinutes

\* ... and that slot is a period
CheckedWithinLead ==
    /\ CheckedSlotWithinLead
    /\ Val(apiResponse.data.nextPeriod).type = "period"

\* no slot key has more than one reminder
NeverTwice ==
    \A n \in 1..Len(shown) :
        shown[n].tag = "class-reminder" =>
            Len(RemindersFor(<<shown[n].start, shown[n].name>>)) = 1

\* C20 as stated: with reminders enabled, permission granted and lead time
\* L, after every check that finds the upcoming slot, of whatever type,
\* within L whole minutes of its start, that slot's key has exactly one
\* reminder, and no key ever has two.
C20_ExactlyOneForAnySlot ==
    /\ NeverTwice
    /\ CheckedSlotWithinLead =>
           Len(RemindersFor(NotificationKey(Val(apiResponse.data.nextPeriod)))) = 1

\* C20: with reminders enabled, permission granted and lead time L, however
\* many checks run, no slot key ever has more than one reminder, and after
\* every check that finds an upcoming slot of type period within L whole
\* minutes of its start that period's key has exactly one; an upcoming break
\* or assembly has none.
C20_ExactlyOneReminder ==
    /\ NeverTwice
    /\ CheckedWithinLead =>
           Len(RemindersFor(NotificationKey(Val(apiResponse.data.nextPeriod)))) = 1
    /\ (CheckedSlotWithinLead /\ ~CheckedWithinLead) =>
           Len(RemindersFor(NotificationKey(Val(apiResponse.data.nextPeriod)))) = 0

\* a check at 08:39:00 finds period-1 one minute ahead, already reminded of
\* at four minutes by the check at 08:35:30
C20_Witness ==
    /\ CheckedWithinLead
    /\ clock = setHours(NewDate(FirstDate), 8, 39)
    /\ reminderMinutes = 5
    /\ Len(shown) = 1
    /\ shown[1].start = HHMM(8, 40)
    /\ shown[1].minutes = 4

-----------------------------------------------------------------------------
(* Specification FairGuard: the cleanup callbacks do run *)

\* the browser runs every pending setTimeout callback
FairGuard == SpecGuard /\ WF_vars(CleanupTimer)

\* the keys a reminder can have on the first day
ReminderKeys ==
    LET schedule == getByDate(RotationOver(ConfigDates), <<>>, SampleCatalog, SampleSubjects,
                              NewDate(FirstDate), FirstDate).data.schedule
    IN  {NotificationKey(schedule[i]) : i \in 1..Len(schedule)}

\* the wall-clock time start of the first day, as an instant
StartInstant(start) ==
    setHours(NewDate(FirstDate), parseInt(split(start)[1]), parseInt(split(start)[2]))

\* the step runs a cleanup callback
CleanupRuns == cleanupTimers' # cleanupTimers /\ cleanupTimers' \subseteq cleanupTimers

C22_DisableClearsAll ==
    ~enabled =>
        /\ scheduledNotifications = {}
        /\ IsNull(checkInterval)
        /\ cleanupTimers = {}

-----------------------------------------------------------------------------
(* Specification SpecNotice: the notices of updateTimetable *)

\* readings of the clock, as <<day after FirstDate, h, m>>: on the first day
\* in the assembly, in the gap after it, in period-1, in period-2, in the
\* recess and in period-3 of the normal timetable; on the next day, a Friday
NoticeTimes ==
    {<<0, 8, 30>>, <<0, 8, 37>>, <<0, 8, 45>>, <<0, 9, 30>>, <<0, 10, 5>>, <<0, 10, 20>>,
     <<1, 8, 45>>}

NoticeInstants ==
    {setHours(setDate(NewDate(FirstDate), t[1]), t[2], t[3]) : t \in NoticeTimes}

\* the first day is normal or has the override A; the day after it is a
\* Friday of the rotation
NoticeSpecials == {<<>>, FirstDate :> "A"}

\* the stored preference is on or off, the permission is granted, the lead
\* time is one minute
InitNotice ==
    /\ \E specials \in NoticeSpecials, isEnabled \in BOOLEAN :
           InitManagerWith(specials, isEnabled, "granted")
    /\ reminderMinutes = 1

\* updateTimetable() at a sampled reading: the start of the application, the
\* minute timer or a resume
UpdateTimetableToday ==
    \E now \in NoticeInstants :
        /\ UpdateTimetableAt(now)
        /\ Len(shown') <= MaxShown

NextNotice == UpdateTimetableToday \/ Enable \/ Disable

SpecNotice == InitNotice /\ [][NextNotice]_vars

\* the number of notifications with the given tag in a list
Tagged(list, tag) == Len(SelectSeq(list, LAMBDA n : n.tag = tag))

\* the step is a run of updateTimetable()
UpdateRuns == \E now \in NoticeInstants : UpdateTimetableAt(now)

\* the step shows a transition notice
TransitionNoticeFires == Tagged(shown', "period-change") = Tagged(shown, "period-change") + 1

NoTransitionNotice == Tagged(shown', "period-change") = Tagged(shown, "period-change")

\* a period, a break or the assembly, not a free or no-school marker
RealSlot(info) == info.type \in {"period", "break", "assembly"}

\* C23 as stated: with notifications enabled and permitted, a run of
\* updateTimetable shows a transition notice whenever the current slot changes
\* from a real slot to a different real slot, and shows none when the previous
\* state was not a real slot.
C23_NoticeBetweenRealSlots ==
    [][(UpdateRuns /\ enabled /\ permission = "granted") =>
          LET previous == currentPeriodInfo
              current == Val(currentPeriodInfo')
          IN  /\ (/\ ~IsNull(previous)
                  /\ RealSlot(Val(previous))
                  /\ RealSlot(current)
                  /\ Val(previous).name # current.name) => TransitionNoticeFires
              /\ (IsNull(previous) \/ ~RealSlot(Val(previous))) => NoTransitionNotice]_vars

\* C23: a run of updateTimetable shows a transition notice exactly when
\* notifications are enabled and permitted, there is an earlier current
\* record, of whatever kind, with another name, and the new current slot is a
\* period; a change to a break, to the assembly or to free time shows none.
C23_NoticeWhenPeriodStarts ==
    [][UpdateRuns =>
          LET previous == currentPeriodInfo
              current == Val(currentPeriodInfo')
          IN  /\ TransitionNoticeFires \/ NoTransitionNotice
              /\ TransitionNoticeFires <=>
                     /\ enabled
                     /\ permission = "granted"
                     /\ ~IsNull(previous)
                     /\ Val(previous).name # current.name
                     /\ current.type = "period"
              /\ TransitionNoticeFires =>
                     /\ shown'[Len(shown')].tag = "period-change"
                     /\ shown'[Len(shown')].name = current.name]_vars

\* two transition notices were shown: for period-1 after the free gap and for
\* period-2 after period-1; the current slot is now the recess
C23_Witness ==
    /\ enabled
    /\ Tagged(shown, "period-change") = 2
    /\ shown[1].name = PeriodName(1)
    /\ shown[2].name = PeriodName(2)
    /\ ~IsNull(currentPeriodInfo)
    /\ Val(currentPeriodInfo).type = "break"

\* a variant other than 'normal' and 'none'
IsSpecialVariant(type) == type # "normal" /\ type # "none"

SpecialNoticeFires ==
    Tagged(shown', "special-schedule") = Tagged(shown, "special-schedule") + 1

\* C24 as stated: the special-schedule notice is shown at most once, only by
\* a run of updateTimetable that resolves today to a special variant, and
\* after every such run with notifications enabled and permitted it has been
\* shown once.
C24_NoticeOnceEnabled ==
    [][/\ Tagged(shown', "special-schedule") <= 1
       /\ SpecialNoticeFires => UpdateRuns /\ IsSpecialVariant(Val(timetableType'))
       /\ (UpdateRuns /\ IsSpecialVariant(Val(timetableType'))
              /\ enabled /\ permission = "granted") =>
              Tagged(shown', "special-schedule") = 1]_vars

-----------------------------------------------------------------------------
(* Specification SpecCapability: browsers without notifications or permission *)

\* the browser has notifications or not; without them the constructor takes
\* the permission to be 'denied'; the stored preference is on or off
InitCapability ==
    \E supported \in BOOLEAN, isEnabled \in BOOLEAN,
       perm \in {"default", "granted", "denied"} :
        /\ ~supported => perm = "denied"
        /\ InitSession(<<>>, supported, isEnabled, perm)

NextCapability == Enable \/ RequestPermission \/ Disable \/ IntervalTick \/ CleanupTimer

SpecCapability == InitCapability /\ [][NextCapability]_vars

\* the step is a call of requestPermission() or of enable()
AsksPermission == RequestPermission \/ Enable

FailureReasons == {"not-supported", "denied", "default", "error"}

\* C25: a call of requestPermission or enable that ends without notifications
\* being supported and permitted returns a record with success false and a
\* reason, leaves the enabled flag, the stored flag and the checker as they
\* were and shows nothing; while the permission is not 'granted' the checker
\* is never running and no step shows a notification.
C25_CapabilityAbsence ==
    /\ [](permission # "granted" => (checkerIntervals = {} /\ shown = <<>>))
    /\ [](~notificationSupported => permission # "granted")
    /\ [][(AsksPermission /\ permission' # "granted") =>
             /\ ~IsNull(nmResult')
             /\ ~Val(nmResult').success
             /\ "reason" \in DOMAIN Val(nmResult')
             /\ Val(nmResult').reason \in FailureReasons
             /\ enabled' = enabled
             /\ localStorage' = localStorage
             /\ checkInterval' = checkInterval /\ checkerIntervals' = checkerIntervals
             /\ shown' = shown]_vars
    /\ [][permission' # "granted" => shown' = shown]_vars

\* the user dismissed the prompt of enable(): the preference is still off
C25_Witness ==
    /\ nmResult = Some([success |-> FALSE, reason |-> "default"])
    /\ permission = "default"
    /\ ~enabled
    /\ localStorage.enabled = Some("false")
    /\ clock # setHours(NewDate(FirstDate), 8, 0)

-----------------------------------------------------------------------------
(* Specification SpecLead: the lead time of the reminders *)

\* the largest lead time
MaxLead == 30

\* the item 'reminder-minutes' as earlier sessions can have left it: absent,
\* or written by setReminderTime
StoredMinutes == {Null} \cup {Some(NumberString(n)) : n \in 1..MaxLead}

\* integers passed to setReminderTime: below, at and above the two limits
LeadArguments == {-1, 0, 7, 30, 31, 100}

InitLead ==
    \E item \in StoredMinutes :
        InitStored(<<>>, TRUE, "granted", [enabled |-> Some("true"), minutes |-> item])

SetAnyReminderTime == \E minutes \in LeadArguments : SetReminderTimeTo(minutes)

NextLead == SetAnyReminderTime \/ IntervalTick \/ CleanupTimer

SpecLead == InitLead /\ [][NextLead]_vars

\* C28: reminderMinutes is always an integer from 1 to 30 and is what the
\* constructor would read back from storage; setReminderTime(m) stores
\* min(30, max(1, m)), in the field and in the item 'reminder-minutes'.
C28_LeadTimeRange ==
    /\ [](reminderMinutes \in 1..30)
    /\ [](StoredLead(localStorage) = reminderMinutes)
    /\ [][\A m \in LeadArguments :
             SetReminderTimeTo(m) =>
                 LET stored == MinOf(30, IF m >= 1 THEN m ELSE 1)
                 IN  /\ reminderMinutes' = stored
                     /\ localStorage'.minutes = Some(NumberString(stored))]_vars

\* the lead time is 1 after a reminder was shown four minutes ahead: an
\* argument below 1 was passed to setReminderTime
C28_Witness ==
    /\ reminderMinutes = 1
    /\ localStorage.minutes = Some(<<"1">>)
    /\ shown # <<>>
    /\ shown[1].minutes = 4

-----------------------------------------------------------------------------
(* Specification SpecTimers: page visibility and the timers of the application *)

\* the fields and the browser's timers of the one-second tick
Tick ==
    [interval |-> realTimeUpdateInterval, frame |-> animationFrameId,
     intervals |-> tickIntervals, frames |-> frameRequests]

SetTick(t) ==
    /\ realTimeUpdateInterval' = t.interval
    /\ animationFrameId' = t.frame
    /\ tickIntervals' = t.intervals
    /\ frameRequests' = t.frames

\* stopRealTimeUpdates()
stopRealTimeUpdates(t) ==
    LET cleared == IF ~IsNull(t.interval)
                   THEN [t EXCEPT !.intervals = clearInterval(@, Val(t.interval)),
                                  !.interval = Null]
                   ELSE t
    IN  IF ~IsNull(cleared.frame)
        THEN [cleared EXCEPT !.frames = @ \ {Val(cleared.frame)}, !.frame = Null]
        ELSE cleared

\* startRealTimeUpdates(): the interval, and on a mobile device the first
\* animation frame request
startRealTimeUpdates(visible, mobile, t) ==
    IF ~visible THEN t
    ELSE LET stopped == stopRealTimeUpdates(t)
             id == FreshId(stopped.intervals)
             frame == FreshId(stopped.frames)
             ticking == [stopped EXCEPT !.interval = Some(id), !.intervals = @ \cup {id}]
         IN  IF mobile
             THEN [ticking EXCEPT !.frame = Some(frame), !.frames = @ \cup {frame}]
             ELSE ticking

\* clock readings of two days: seconds apart, more than five seconds apart,
\* and on the day after
TimerTimes ==
    {<<0, 8, 30, 0>>, <<0, 8, 30, 1>>, <<0, 8, 30, 7>>, <<0, 9, 30, 0>>, <<1, 8, 45, 0>>}

TimerInstants ==
    {AddMillis(setHours(setDate(NewDate(FirstDate), t[1]), t[2], t[3]), t[4] * 1000) :
        t \in TimerTimes}

\* ?view= in the address of the page
ViewParams == {"", "today", "date-select"}

ViewModes == {"today", "date-select"}

\* init() has registered the listeners and started the timers
Initialised == appCall # NoCall

\* ... and the page is not being unloaded
Running == Initialised /\ appCall.op # "cleanup"

\* a handler that does not call updateTimetable runs when the clock reads now
KeepTimetable(op, now) ==
    /\ DateDiff(now, clock) >= 0
    /\ clock' = now
    /\ appCall' = [op |-> op, now |-> now]
    /\ UNCHANGED <<cfgVars, apiVars, nmVars, selectedDate, timetableType, dayCycle,
                   currentPeriodInfo, nextPeriodInfo, hasNotifiedSpecialSchedule, pageVars>>

\* ... one that calls it
CallUpdateTimetable(now) ==
    /\ updateTimetable(now)
    /\ Len(shown') <= MaxShown

\* the constructor's state, one day without override, reminders enabled
InitTimers ==
    /\ \E mobile \in BOOLEAN :
           InitBrowser(<<>>, TRUE, mobile, "granted",
                       [enabled |-> Some("true"), minutes |-> Some(<<"1">>)])

\* init(), once the service worker is registered: updateDateTime,
\* updateTimetable, startRealTimeUpdates and checkURLParams
AppInit ==
    \E now \in TimerInstants, view \in ViewParams :
        /\ ~Initialised
        /\ CallUpdateTimetable(now)
        /\ lastUpdateTime' = now
        /\ SetTick(startRealTimeUpdates(isPageVisible, mobileAgent, Tick))
        /\ currentViewMode' = IF view \in ViewModes THEN view ELSE currentViewMode
        /\ UNCHANGED <<documentHidden, mobileAgent, isPageVisible>>

\* the page is hidden or shown; handleVisibilityChange runs if init() has
\* registered it
VisibilityChange ==
    \E now \in TimerInstants :
        /\ documentHidden' = ~documentHidden
        /\ UNCHANGED <<mobileAgent, currentViewMode>>
        /\ IF ~Running
           THEN /\ DateDiff(now, clock) >= 0
                /\ clock' = now
                /\ UNCHANGED <<cfgVars, apiVars, nmVars, appCall, selectedDate, timetableType,
                               dayCycle, currentPeriodInfo, nextPeriodInfo,
                               hasNotifiedSpecialSchedule, isPageVisible, lastUpdateTime,
                               realTimeUpdateInterval, animationFrameId, tickIntervals,
                               frameRequests, pageVars>>
           ELSE /\ isPageVisible' = ~documentHidden'
                /\ IF isPageVisible' /\ ~isPageVisible
                   THEN /\ SetTick(startRealTimeUpdates(TRUE, mobileAgent,
                                                        stopRealTimeUpdates(Tick)))
                        /\ lastUpdateTime' = now
                        /\ IF currentViewMode = "today"
                           THEN CallUpdateTimetable(now)
                           ELSE KeepTimetable("handleVisibilityChange", now)
                   ELSE /\ SetTick(IF ~isPageVisible' /\ isPageVisible
                                   THEN stopRealTimeUpdates(Tick)
                                   ELSE Tick)
                        /\ KeepTimetable("handleVisibilityChange", now)
                        /\ UNCHANGED lastUpdateTime

\* touchstart, touchmove or touchend
TouchEvent ==
    \E now \in TimerInstants :
        /\ Running
        /\ KeepTimetable("touch", now)
        /\ lastUpdateTime' = now
        /\ SetTick(IF isPageVisible /\ IsNull(realTimeUpdateInterval)
                      /\ IsNull(animationFrameId)
                   THEN startRealTimeUpdates(isPageVisible, mobileAgent, Tick)
                   ELSE Tick)
        /\ UNCHANGED <<documentHidden, mobileAgent, isPageVisible, currentViewMode>>

\* the callback of the five-second interval of initMobileSupport
HealthCheck ==
    \E now \in TimerInstants :
        LET restart == /\ isPageVisible
                       /\ currentViewMode = "today"
                       /\ DateDiff(now, lastUpdateTime) > 5000
        IN  /\ Running
            /\ KeepTimetable(IF restart THEN "healthCheckRestart" ELSE "healthCheck", now)
            /\ SetTick(IF restart
                       THEN startRealTimeUpdates(isPageVisible, mobileAgent,
                                                 stopRealTimeUpdates(Tick))
                       ELSE Tick)
            /\ UNCHANGED <<documentHidden, mobileAgent, isPageVisible, currentViewMode,
                           lastUpdateTime>>

\* the callback of a live one-second interval
RealTimeTick ==
    \E id \in tickIntervals, now \in TimerInstants :
        /\ KeepTimetable("tick", now)
        /\ lastUpdateTime' = IF isPageVisible THEN now ELSE lastUpdateTime
        /\ UNCHANGED <<documentHidden, mobileAgent, isPageVisible, currentViewMode,
                       realTimeUpdateInterval, animationFrameId, tickIntervals,
                       frameRequests>>

\* animationUpdate, the callback of a pending animation frame request
AnimationFrame ==
    \E id \in frameRequests, now \in TimerInstants :
        LET fired == frameRequests \ {id}
            next == FreshId(fired)
        IN  /\ KeepTimetable("frame", now)
            /\ lastUpdateTime' = IF isPageVisible /\ DateDiff(now, lastUpdateTime) >= 1000
                                  THEN now
                                  ELSE lastUpdateTime
            /\ animationFrameId' = IF isPageVisible THEN Some(next) ELSE animationFrameId
            /\ frameRequests' = IF isPageVisible THEN fired \cup {next} ELSE fired
            /\ UNCHANGED <<documentHidden, mobileAgent, isPageVisible, currentViewMode,
                           realTimeUpdateInterval, tickIntervals>>

\* switchView(viewMode)
SwitchView ==
    \E viewMode \in ViewModes, now \in TimerInstants :
        /\ Running
        /\ currentViewMode' = viewMode
        /\ IF viewMode = "today"
           THEN CallUpdateTimetable(now)
           ELSE KeepTimetable("switchView", now)
        /\ UNCHANGED <<documentHidden, mobileAgent, isPageVisible, lastUpdateTime,
                       realTimeUpdateInterval, animationFrameId, tickIntervals,
                       frameRequests>>

\* the callback of the one-minute interval of init()
MinuteTimer ==
    \E now \in TimerInstants :
        /\ Running
        /\ IF currentViewMode = "today" /\ isPageVisible
           THEN CallUpdateTimetable(now)
           ELSE KeepTimetable("minute", now)
        /\ UNCHANGED timerVars

\* cleanup(), on beforeunload
Cleanup ==
    \E now \in TimerInstants :
        /\ Running
        /\ KeepTimetable("cleanup", now)
        /\ SetTick(stopRealTimeUpdates(Tick))
        /\ UNCHANGED <<documentHidden, mobileAgent, isPageVisible, currentViewMode,
                       lastUpdateTime>>

\* a caller invokes startNotificationChecker(): the interval is replaced and
\* checkUpcomingClasses runs at once
StartNotificationChecker ==
    \E now \in TimerInstants :
        /\ DateDiff(now, clock) >= 0
        /\ SetChecker(startNotificationChecker(Checker))
        /\ CheckAt(now, enabled, permission, shown)
        /\ UNCHANGED <<cfgVars, appVars, enabled, permission, reminderMinutes, localStorage,
                       nmResult, awaitingPrompt>>

\* a caller invokes stopNotificationChecker()
StopNotificationChecker ==
    /\ SetChecker(stopNotificationChecker(Checker))
    /\ UNCHANGED <<cfgVars, clock, apiVars, appVars, enabled, permission, reminderMinutes,
                   scheduledNotifications, cleanupTimers, localStorage, nmResult, awaitingPrompt, shown>>

NextTimers ==
    \/ AppInit
    \/ VisibilityChange
    \/ TouchEvent
    \/ HealthCheck
    \/ RealTimeTick
    \/ AnimationFrame
    \/ SwitchView
    \/ MinuteTimer
    \/ Cleanup
    \/ StartNotificationChecker
    \/ StopNotificationChecker

SpecTimers == InitTimers /\ [][NextTimers]_vars

-----------------------------------------------------------------------------
(* Properties of the page visibility and the timers (SpecTimers) *)

\* neither the one-second interval nor an animation frame request is alive
TickPaused == tickIntervals = {} /\ frameRequests = {}

\* the same with the application's own flag in place of document.hidden
PausedWhileFlagCleared == [](~isPageVisible => TickPaused)

\* C26: whenever the page is not visible the one-second tick is not running,
\* neither as interval nor as animation frame request; no touch event and no
\* health check starts it while the page is hidden.
C26_BackgroundPause ==
    /\ [](documentHidden => TickPaused)
    /\ [][(documentHidden /\ documentHidden') =>
             (tickIntervals' \subseteq tickIntervals
                 /\ frameRequests' \subseteq frameRequests)]_vars

\* today's variant, day cycle and current and next slot, resolved at now
ResolvedAt(now) ==
    LET today == formatDateToISO(now)
        type == getTimetableTypeForDate(DAY_ROTATION, SPECIAL_DATES, today)
        cycle == calculateDayCycle(DAY_ROTATION, today)
        upd == updateCurrentPeriod(TIMETABLE_DATA, SUBJECT_SCHEDULE, type, cycle,
                                   Null, FALSE, "default", <<>>, now)
    IN  [timetableType |-> Some(type), dayCycle |-> cycle,
         currentPeriodInfo |-> upd[1], nextPeriodInfo |-> upd[2]]

Displayed ==
    [timetableType |-> timetableType, dayCycle |-> dayCycle,
     currentPeriodInfo |-> currentPeriodInfo, nextPeriodInfo |-> nextPeriodInfo]

\* the page of the running application goes from hidden to visible
Resumes == Running /\ documentHidden /\ ~documentHidden'

\* C27: in the step in which the page goes from hidden to visible the
\* one-second tick is running again and the variant, the day cycle and the
\* current and next slot are those of the clock's reading at that step.
C27_ResumeReevaluates ==
    [][Resumes => (tickIntervals' # {} /\ Displayed' = ResolvedAt(clock'))]_vars

\* ... in the today view, after a hide that the application has seen
ResumeSeenInTodayView ==
    [][(Resumes /\ ~isPageVisible /\ currentViewMode = "today") =>
          (tickIntervals' # {} /\ Displayed' = ResolvedAt(clock'))]_vars

\* ... in the today view, hidden since before init() ran
ResumeAfterHiddenStart ==
    [][(Resumes /\ currentViewMode = "today") => Displayed' = ResolvedAt(clock')]_vars

\* ... after a hide that the application has seen, in any view
ResumeInAnyView ==
    [][(Resumes /\ ~isPageVisible) => Displayed' = ResolvedAt(clock')]_vars

\* C29: stopRealTimeUpdates and stopNotificationChecker change nothing when
\* called a second time and leave no interval of theirs alive; at most one
\* one-second interval and at most one checker interval are alive, the one
\* whose id the field holds, and a start in any state leaves exactly one.
C29_TimerDiscipline ==
    /\ stopRealTimeUpdates(stopRealTimeUpdates(Tick)) = stopRealTimeUpdates(Tick)
    /\ stopRealTimeUpdates(Tick).intervals = {}
    /\ stopRealTimeUpdates(Tick).frames = {}
    /\ stopNotificationChecker(stopNotificationChecker(Checker))
          = stopNotificationChecker(Checker)
    /\ stopNotificationChecker(Checker).live = {}
    /\ Cardinality(tickIntervals) <= 1
    /\ Cardinality(checkerIntervals) <= 1
    /\ tickIntervals = IF IsNull(realTimeUpdateInterval) THEN {}
                       ELSE {Val(realTimeUpdateInterval)}
    /\ checkerIntervals = IF IsNull(checkInterval) THEN {} ELSE {Val(checkInterval)}
    /\ Cardinality(startRealTimeUpdates(TRUE, mobileAgent, Tick).intervals) = 1
    /\ Cardinality(startNotificationChecker(Checker).live) = 1

\* the health check has just replaced a running one-second interval, on a
\* mobile device, and the checker runs
C29_Witness ==
    /\ appCall.op = "healthCheckRestart"
    /\ mobileAgent
    /\ Cardinality(tickIntervals) = 1
    /\ Cardinality(frameRequests) = 1
    /\ Cardinality(checkerIntervals) = 1

-----------------------------------------------------------------------------
(* Specification SpecQuery: the query string of the page *)

\* getToday()
getToday(rotation, specials, catalog, subjects, now) ==
    getByDate(rotation, specials, catalog, subjects, now, formatDateToISO(now))

\* getSubjects(); the array of Object.keys is kept as the set of its elements
getSubjects(subjects, now) ==
    [success |-> TRUE, timestamp |-> now,
     data |-> [dayCycles |-> DOMAIN subjects, schedule |-> subjects]]

\* getTimetables(); the array of types is kept as the set of its elements
getTimetables(catalog, now) ==
    [success |-> TRUE, timestamp |-> now,
     data |-> [types |->
                  {[id |-> key,
                    name |-> getTimetableTypeName(key),
                    periodsCount |-> Len(catalog[key].periods),
                    breaksCount |-> Len(catalog[key].breaks),
                    hasAssembly |-> ~IsNull(catalog[key].preSchoolAssembly)] :
                       key \in DOMAIN catalog}]]

\* a parameter that is absent, or present and empty: params.get gives null or ''
Falsy(param, empty) == IsNull(param) \/ Val(param) = empty

handleURLParams_IgnoresUnknown(search, rotation, specials, catalog, subjects, now) ==
    IF Falsy(search.api, "") \/ Val(search.api) \notin {"today", "current", "week"}
    THEN Null
    ELSE Some(getToday(rotation, specials, catalog, subjects, now))

\* handleURLParams(): null when it stores nothing, or the response it stores
handleURLParams(search, rotation, specials, catalog, subjects, now) ==
    IF Falsy(search.api, "") THEN Null
    ELSE LET apiEndpoint == Val(search.api)
         IN  Some(CASE apiEndpoint = "today" ->
                         getToday(rotation, specials, catalog, subjects, now)
                    [] apiEndpoint = "current" ->
                         getCurrent(rotation, specials, catalog, subjects, now)
                    [] apiEndpoint = "week" ->
                         getWeek(rotation, specials, catalog, subjects, now)
                    [] apiEndpoint = "subjects" -> getSubjects(subjects, now)
                    [] apiEndpoint = "timetables" -> getTimetables(catalog, now)
                    [] apiEndpoint = "date" ->
                         IF ~Falsy(search.date, <<>>)
                         THEN getByDate(rotation, specials, catalog, subjects, now,
                                        Val(search.date))
                         ELSE errorResponse(now, "Missing date parameter")
                    [] OTHER -> errorResponse(now, "Unknown endpoint: " \o apiEndpoint))

\* values of the parameter api: absent, empty, the documented names, others
ApiParams ==
    {Null} \cup {Some(name) : name \in {"", "today", "current", "week", "subjects",
                                        "timetables", "date", "dates", "Today"}}

\* values of the parameter date: absent, empty, dates of the window, and a
\* string that is no date
DateParams == {Null, Some(<<>>)} \cup {Some(d) : d \in DateInputs}

FormatParams == {Null, Some("json"), Some("xml")}

Queries == [api : ApiParams, date : DateParams, format : FormatParams]

\* clock readings at which the document becomes ready
QueryTimes == {<<0, 8, 30>>, <<0, 9, 30>>, <<1, 8, 45>>}

QueryInstants ==
    {setHours(setDate(NewDate(FirstDate), t[1]), t[2], t[3]) : t \in QueryTimes}

\* the scripts have loaded, the document is still loading
InitQuery ==
    /\ DAY_ROTATION = RotationOver(ConfigDates)
    /\ SPECIAL_DATES \in NoticeSpecials
    /\ TIMETABLE_DATA = SampleCatalog
    /\ SUBJECT_SCHEDULE = SampleSubjects
    /\ \E search \in Queries : InitPage(NewDate(FirstDate), search, "loading")

\* DOMContentLoaded: handleURLParams() runs when the clock reads now
HandleURLParams ==
    \E now \in QueryInstants :
        \E response \in {handleURLParams(locationSearch, DAY_ROTATION, SPECIAL_DATES,
                                          TIMETABLE_DATA, SUBJECT_SCHEDULE, now)} :
            /\ readyState = "loading"
            /\ readyState' = "complete"
            /\ clock' = now
            /\ apiCall' = [op |-> "handleURLParams", now |-> now]
            /\ apiResponse' = response
            /\ windowApiResponse' = IF IsNull(response) THEN windowApiResponse ELSE response
            /\ rawBody' = IF ~IsNull(response) /\ locationSearch.format = Some("json")
                          THEN response
                          ELSE rawBody
            /\ UNCHANGED <<cfgVars, nmVars, appCall, selectedDate, timetableType, dayCycle,
                           currentPeriodInfo, nextPeriodInfo, hasNotifiedSpecialSchedule,
                           timerVars, locationSearch, datePickerValue>>

NextQuery == HandleURLParams

SpecQuery == InitQuery /\ [][NextQuery]_vars

\* the documented endpoint names
EndpointNames == {"today", "current", "week", "subjects", "timetables", "date"}

\* the response of the named API operation at the clock's reading
Answer(name) ==
    CASE name = "today" ->
           getByDate(DAY_ROTATION, SPECIAL_DATES, TIMETABLE_DATA, SUBJECT_SCHEDULE, clock,
                     formatDateToISO(clock))
      [] name = "current" ->
           getCurrent(DAY_ROTATION, SPECIAL_DATES, TIMETABLE_DATA, SUBJECT_SCHEDULE, clock)
      [] name = "week" ->
           getWeek(DAY_ROTATION, SPECIAL_DATES, TIMETABLE_DATA, SUBJECT_SCHEDULE, clock)
      [] name = "subjects" -> getSubjects(SUBJECT_SCHEDULE, clock)
      [] name = "timetables" -> getTimetables(TIMETABLE_DATA, clock)
      [] name = "date" ->
           getByDate(DAY_ROTATION, SPECIAL_DATES, TIMETABLE_DATA, SUBJECT_SCHEDULE, clock,
                     Val(locationSearch.date))

IsFailure(response, message) ==
    /\ ~response.success
    /\ response.error.message = message
    /\ "data" \notin DOMAIN response

\* C30: once handleURLParams has run, window.apiResponse holds the result of
\* the API operation that the parameter api names; for 'date' without a date,
\* and for any other name, it holds a success:false envelope with a message;
\* without the parameter api (or with an empty one) it holds nothing.
C30_QueryDispatch ==
    readyState = "complete" =>
        LET api == locationSearch.api
            date == locationSearch.date
        IN  IF IsNull(api) \/ api = Some("")
            THEN windowApiResponse = Null
            ELSE /\ ~IsNull(windowApiResponse)
                 /\ IF Val(api) = "date" /\ (IsNull(date) \/ date = Some(<<>>))
                    THEN IsFailure(Val(windowApiResponse), "Missing date parameter")
                    ELSE IF Val(api) \in EndpointNames
                    THEN Val(windowApiResponse) = Answer(Val(api))
                    ELSE IsFailure(Val(windowApiResponse),
                                   "Unknown endpoint: " \o Val(api))

\* the query ?api=dates was answered with a failure envelope
C30_Witness ==
    /\ readyState = "complete"
    /\ locationSearch.api = Some("dates")
    /\ ~IsNull(windowApiResponse)
    /\ ~Val(windowApiResponse).success

-----------------------------------------------------------------------------
(* Agreement of the two variant selectors (SpecResolve) *)

\* C31: for every valid date and every content of the day-rotation and
\* special-date tables, data.timetableType of getByDate(date) equals
\* getTimetableTypeForDate(date): for the dates last passed to the two, and
\* for every date of the window.
C31_SelectorsAgree ==
    /\ (ApiAsked(IsParseable) /\ selectedDate = Some(apiCall.date)) =>
           timetableType = Some(apiResponse.data.timetableType)
    /\ \A d \in ConfigDates :
           getByDate(DAY_ROTATION, SPECIAL_DATES, TIMETABLE_DATA, SUBJECT_SCHEDULE,
                     clock, d).data.timetableType
             = getTimetableTypeForDate(DAY_ROTATION, SPECIAL_DATES, d)

\* both selectors were asked for the same Saturday or Sunday, which has a
\* day-cycle entry and no override
C31_Witness ==
    /\ ApiAsked(C2_IsPlainWeekendWithCycle)
    /\ selectedDate = Some(apiCall.date)
    /\ timetableType = Some("none")
    /\ apiResponse.data.timetableType = "none"

-----------------------------------------------------------------------------
(* Agreement of the two current-slot locators (SpecDay) *)

\* getCurrent and updateTimetable last ran at the same clock reading
BothLocated == GotCurrent /\ AppLocated /\ apiCall.now = appCall.now

\* the application's current record names the slot getCurrent chose, or is
\* the 'free' record when getCurrent chose none
SameChoice ==
    IF IsNull(apiResponse.data.currentPeriod)
    THEN Val(currentPeriodInfo).type = "free"
    ELSE SameSlot(Val(currentPeriodInfo), Val(apiResponse.data.currentPeriod))

\* the clock reading is at a minute where one slot ends and another starts
AtSharedBoundary(now) ==
    \E i, j \in 1..Len(ScheduleAt(now)) :
        /\ i # j
        /\ SharedBoundary(ScheduleAt(now)[i], ScheduleAt(now)[j], MinuteOfInstant(now))

\* C32: for every definition with non-overlapping slots and every time, the
\* slot chosen by findCurrentPeriod has the type, start and end of the
\* currentPeriod of getCurrent, also on a boundary that two slots share, and
\* both report 'free' at the same times.
C32_LocatorsAgree == BothLocated => SameChoice

\* ... away from the boundaries that two slots share
LocatorsAgreeOffBoundary == (BothLocated /\ ~AtSharedBoundary(apiCall.now)) => SameChoice

-----------------------------------------------------------------------------
(* Reminders under any sequence of operations (SpecGuard) *)

\* C33: within one day, across any interleaving of checker ticks, enable(),
\* disable(), setReminderTime() and cleanup callbacks, the reminder of a
\* period (same start and name) is shown at most once.
C33_AtMostOncePerDay == \A key \in ReminderKeys : Len(RemindersFor(key)) <= 1

-----------------------------------------------------------------------------
(* The rendering of the remaining time (SpecLocate) *)

\* C35: in every getCurrent result remainingFormatted is null exactly when
\* remainingSeconds is null, and is the HH:MM:SS rendering of
\* remainingSeconds whenever that is a number, 0 included.
C35_RemainingFormatted ==
    GotCurrent =>
        LET rem == apiResponse.data.remainingSeconds
            fmt == apiResponse.data.remainingFormatted
        IN  /\ IsNull(fmt) <=> IsNull(rem)
            /\ ~IsNull(rem) => fmt = Some(formatSeconds(Val(rem)))

\* ... for every remainingSeconds other than 0
RemainingFormattedUnlessZero ==
    GotCurrent =>
        LET rem == apiResponse.data.remainingSeconds
            fmt == apiResponse.data.remainingFormatted
        IN  IF IsNull(rem) \/ rem = Some(0) THEN IsNull(fmt)
            ELSE fmt = Some(formatSeconds(Val(rem)))

-----------------------------------------------------------------------------
(* The next slot relative to the current one (SpecDay) *)

\* getCurrent answered with slot i of the day's ordered schedule as current
CurrentIs(i) ==
    /\ GotCurrent
    /\ i \in 1..Len(ScheduleAt(apiCall.now))
    /\ apiResponse.data.currentPeriod = Some(ScheduleAt(apiCall.now)[i])
    /\ \A k \in 1..(i - 1) : ScheduleAt(apiCall.now)[k] # ScheduleAt(apiCall.now)[i]

\* the clock reading of the minute before slot sl starts, on the day of now
MinuteBefore(sl, now) == [day |-> now.day, ms |-> (MinuteOf(sl.start) - 1) * 60000]

-----------------------------------------------------------------------------
(* Reminders and the kind of the upcoming slot (SpecLead) *)

\* after the step, the last getCurrent is the one of a check at the clock's
\* reading and its upcoming slot is not a period
CheckedBeforeNonPeriod ==
    /\ apiCall'.op = "getCurrent"
    /\ apiCall'.now = clock'
    /\ apiResponse'.success
    /\ ~IsNull(apiResponse'.data.nextPeriod)
    /\ Val(apiResponse'.data.nextPeriod).type # "period"

\* no slot of the day starts after the reading now and before the time start
NearestUpcoming(start, now) ==
    \A i \in 1..Len(ScheduleAt(now)) :
        StartsAfter(ScheduleAt(now)[i], now) =>
            MinuteOf(ScheduleAt(now)[i].start) >= MinuteOf(start)

\* C36: a check that finds a break or the assembly as the upcoming slot shows
\* nothing and adds no key to the fired set; and a reminder is shown only for
\* a slot of type period that is, at the time of the check, the nearest
\* upcoming slot of the day, whatever the lead time.
C36_OnlyNearestPeriod ==
    /\ [][CheckedBeforeNonPeriod =>
              /\ shown' = shown
              /\ scheduledNotifications' \subseteq scheduledNotifications]_vars
    /\ [][ReminderFires =>
              LET reminder == shown'[Len(shown')]
              IN  /\ NearestUpcoming(reminder.start, clock')
                  /\ \E i \in 1..Len(ScheduleAt(clock')) :
                         /\ ScheduleAt(clock')[i].type = "period"
                         /\ ScheduleAt(clock')[i].start = reminder.start
                         /\ ScheduleAt(clock')[i].name = reminder.name]_vars

\* the check at 09:58:00 with lead time 30: the recess is two minutes ahead
\* and period-3 seventeen, and neither has a reminder or a key
C36_Witness ==
    /\ clock = AddMillis(setHours(NewDate(FirstDate), 9, 58), 0)
    /\ apiCall = [op |-> "getCurrent", now |-> clock]
    /\ Val(apiResponse.data.nextPeriod).type = "break"
    /\ reminderMinutes = 30
    /\ WholeMinutesTo(HHMM(10, 15), clock) = 17
    /\ \A n \in 1..Len(shown) : shown[n].start \notin {HHMM(10, 0), HHMM(10, 15)}
    /\ \A key \in scheduledNotifications : key[1] \notin {HHMM(10, 0), HHMM(10, 15)}

-----------------------------------------------------------------------------
(* Specification SpecPrompt: enable() suspended at the permission prompt *)

\* largest number of enable() calls that wait for the prompt at one time
MaxAwaiting == 2

\* what a pending Notification.requestPermission() can resolve to: the
\* browser answers every pending request with the one decision of the user
AnswersAfter(perm) == IF perm = "default" THEN PromptOutcomes ELSE {perm}

\* enable() where requestPermission() returns without the prompt: the rest of
\* enable() runs before any other handler
EnableAtOnce ==
    /\ ~notificationSupported \/ permission # "default"
    /\ Enable

\* enable() where requestPermission() reaches
\* `await Notification.requestPermission()`: the call is suspended
EnableAwaitsPrompt ==
    /\ notificationSupported
    /\ permission = "default"
    /\ awaitingPrompt.before + awaitingPrompt.after < MaxAwaiting
    /\ awaitingPrompt' = [awaitingPrompt EXCEPT !.after = @ + 1]
    /\ UNCHANGED <<cfgVars, clock, apiVars, appVars, enabled, permission, reminderMinutes,
                   scheduledNotifications, checkInterval, checkerIntervals, cleanupTimers,
                   localStorage, nmResult, shown>>

\* the prompt ends with outcome and a suspended enable() goes on: the rest of
\* requestPermission(), then the rest of enable()
EnableResumes(overtaken) ==
    \E now \in RemindInstants, outcome \in AnswersAfter(permission) :
        LET permResult == requestPermission(TRUE, "default", outcome)
            tested == IF permResult.tested
                      THEN show(permResult.permission, shown,
                                [tag |-> "test-notification", name |-> "enabled",
                                 body |-> "reminders"])
                      ELSE shown
        IN  /\ DateDiff(now, clock) >= 0
            /\ IF overtaken
               THEN /\ awaitingPrompt.before > 0
                    /\ awaitingPrompt' = [awaitingPrompt EXCEPT !.before = @ - 1]
               ELSE /\ awaitingPrompt.after > 0
                    /\ awaitingPrompt' = [awaitingPrompt EXCEPT !.after = @ - 1]
            /\ permission' = IF outcome = "rejected" THEN permission ELSE outcome
            /\ IF permResult.result.success
               THEN /\ enabled' = TRUE
                    /\ localStorage' = [localStorage EXCEPT !.enabled = Some("true")]
                    /\ SetChecker(startNotificationChecker(Checker))
                    /\ CheckAt(now, TRUE, permResult.permission, tested)
                    /\ nmResult' = Some([success |-> TRUE])
               ELSE /\ clock' = now
                    /\ nmResult' = Some(permResult.result)
                    /\ UNCHANGED <<apiVars, enabled, localStorage, checkInterval,
                                   checkerIntervals, scheduledNotifications,
                                   cleanupTimers, shown>>
            /\ UNCHANGED <<cfgVars, appVars, reminderMinutes>>

\* ... a call made after the last disable()
EnableResumesFresh == EnableResumes(FALSE)

\* ... a call that was waiting when disable() ran
EnableResumesOvertaken == EnableResumes(TRUE)

InitPrompt == InitCapability

NextPrompt ==
    \/ EnableAtOnce
    \/ EnableAwaitsPrompt
    \/ EnableResumesFresh
    \/ EnableResumesOvertaken
    \/ Disable
    \/ IntervalTick
    \/ CleanupTimer

SpecPrompt == InitPrompt /\ [][NextPrompt]_vars

\* C37: whenever the 30-second checker interval is running, enabled is true
\* and the recorded permission is 'granted'; and the stored item
\* 'notifications-enabled' reads as the enabled flag.
C37_CheckerInvariant ==
    /\ (checkerIntervals # {} \/ ~IsNull(checkInterval)) =>
           (enabled /\ permission = "granted")
    /\ StoredEnabled(localStorage) = enabled

\* the checker runs after an enable() that went through the prompt and was
\* answered with 'granted'; no call is waiting
C37_Witness ==
    /\ checkerIntervals # {}
    /\ enabled
    /\ permission = "granted"
    /\ localStorage.enabled = Some("true")
    /\ \E i \in 1..Len(shown) : shown[i].tag = "test-notification"
    /\ awaitingPrompt = NoPrompt

\* C38: an enable() call that was waiting for the prompt when disable()
\* returned, and goes on while the reminders are still off, leaves enabled
\* false and starts no checker.
C38_DisableIsFinal ==
    [][(awaitingPrompt'.before < awaitingPrompt.before /\ ~enabled) =>
           (~enabled' /\ checkerIntervals' = {} /\ IsNull(checkInterval'))]_vars

\* disable() is not undone by an overtaken enable() whose prompt is not
\* answered with 'granted'
DisableFinalUnlessGranted ==
    [][(awaitingPrompt'.before < awaitingPrompt.before /\ ~enabled
            /\ permission' # "granted") =>
           (~enabled' /\ checkerIntervals' = {} /\ IsNull(checkInterval'))]_vars

-----------------------------------------------------------------------------
(* Specification SpecNavigate: the previous-day and next-day buttons *)

\* calendar days, starting at FirstDate, that the date picker is set to and
\* the buttons may lead to
NavSpan == 16

NavDates == {CivilFromDays(DayNumber(FirstDate) + i) : i \in 0..(NavSpan - 1)}

isWeekendDate_SundayOnly(date) == getDay(date) = 0

\* day === 0 || day === 6
isWeekendDate(date) == getDay(date) = 0 \/ getDay(date) = 6

\* new Date(Number(y), Number(m) - 1, Number(d)): local midnight; a day number
\* past the end of the month carries over into the next month
DateOfParts(dateStr) ==
    [day |-> DaysFromCivil(dateStr[1], dateStr[2], 1) + dateStr[3] - 1, ms |-> 0]

\* while (this.isWeekendDate(date)) date.setDate(date.getDate() + step)
RECURSIVE SkipWeekend(_, _)
SkipWeekend(date, step) ==
    IF isWeekendDate(date) THEN SkipWeekend(setDate(date, step), step) ELSE date

\* datePicker.value || this.getTodayDateString()
BaseDate(value, now) == IF IsNull(value) THEN formatDateToISO(now) ELSE Val(value)

\* the date goToPrevDay() puts into the picker, or null when it returns early
goToPrevDay(value, now) ==
    LET date == NewDate(BaseDate(value, now))
    IN  IF isNaN(date) THEN Null
        ELSE Some(formatDateToISO(SkipWeekend(setDate(date, -1), -1)))

\* the date goToNextDay() puts into the picker
goToNextDay(value, now) ==
    Some(formatDateToISO(SkipWeekend(setDate(DateOfParts(BaseDate(value, now)), 1), 1)))

\* a navigation handler named op that found newDate: switchView('date-select')
\* unless that is the view, then the picker, selectedDate and viewSelectedDate()
Navigate(op, newDate) ==
    /\ IF IsNull(newDate) THEN TRUE ELSE Val(newDate) \in NavDates
    /\ currentViewMode' = "date-select"
    /\ appCall' = [op |-> op, date |-> BaseDate(datePickerValue, clock), result |-> newDate]
    /\ IF IsNull(newDate)
       THEN UNCHANGED <<datePickerValue, selectedDate, timetableType, dayCycle>>
       ELSE /\ datePickerValue' = newDate
            /\ selectedDate' = newDate
            /\ timetableType' = Some(getTimetableTypeForDate(DAY_ROTATION, SPECIAL_DATES,
                                                             Val(newDate)))
            /\ dayCycle' = calculateDayCycle(DAY_ROTATION, Val(newDate))
    /\ UNCHANGED <<cfgVars, clock, apiVars, nmVars, currentPeriodInfo, nextPeriodInfo,
                   hasNotifiedSpecialSchedule, documentHidden, mobileAgent, isPageVisible,
                   lastUpdateTime, realTimeUpdateInterval, animationFrameId, tickIntervals,
                   frameRequests, locationSearch, readyState, windowApiResponse, rawBody>>

\* the click on 'prev-day-btn'
GoToPrevDay == Navigate("goToPrevDay", goToPrevDay(datePickerValue, clock))

\* the click on 'next-day-btn'
GoToNextDay == Navigate("goToNextDay", goToNextDay(datePickerValue, clock))

\* the user sets or clears the date picker: the change listener only redraws
PickDate ==
    \E value \in {Null} \cup {Some(d) : d \in NavDates \cup {BadDate}} :
        /\ datePickerValue' = value
        /\ UNCHANGED <<cfgVars, clock, apiVars, nmVars, appCall, selectedDate, timetableType,
                       dayCycle, currentPeriodInfo, nextPeriodInfo,
                       hasNotifiedSpecialSchedule, timerVars, locationSearch, readyState,
                       windowApiResponse, rawBody>>

\* the application on the first day of the window or on the Saturday after it
InitNavigate ==
    /\ DAY_ROTATION = RotationOver(ConfigDates)
    /\ SPECIAL_DATES = <<>>
    /\ TIMETABLE_DATA = SampleCatalog
    /\ SUBJECT_SCHEDULE = SampleSubjects
    /\ \E i \in {0, 2} : InitAt(setHours(setDate(NewDate(FirstDate), i), 9, 0))

NextNavigate == GoToPrevDay \/ GoToNextDay \/ PickDate

SpecNavigate == InitNavigate /\ [][NextNavigate]_vars

\* the day with number n is a Saturday or a Sunday
SaturdayOrSunday(n) == (n + 4) % 7 \in {0, 6}

\* the last navigation went from a valid date by sign * 1..3 days to a day
\* that is not in a weekend, over weekend days only
NearestSchoolWeekday(sign) ==
    LET from == DayNumber(appCall.date)
        to == DayNumber(Val(appCall.result))
    IN  /\ ~IsNull(appCall.result)
        /\ selectedDate = appCall.result
        /\ (to - from) * sign \in 1..3
        /\ ~SaturdayOrSunday(to)
        /\ \A n \in 1..((to - from) * sign - 1) : SaturdayOrSunday(from + n * sign)

\* C39: from any valid date goToNextDay selects the earliest later date that
\* is not a Saturday or Sunday and goToPrevDay the latest earlier one, at most
\* three days away; both put the date into the picker; and goToPrevDay right
\* after a goToNextDay from a Monday-to-Friday date selects that date again.
C39_DayNavigation ==
    /\ []((appCall.op = "goToNextDay" /\ IsParseable(appCall.date)) =>
              NearestSchoolWeekday(1))
    /\ []((appCall.op = "goToPrevDay" /\ IsParseable(appCall.date)) =>
              NearestSchoolWeekday(-1))
    /\ [][(appCall' # appCall /\ IsParseable(appCall'.date)) =>
              datePickerValue' = selectedDate']_vars
    /\ [][(/\ appCall.op = "goToNextDay"
           /\ IsParseable(appCall.date)
           /\ WeekdayOf(appCall.date) \in 1..5
           /\ datePickerValue = appCall.result
           /\ appCall'.op = "goToPrevDay") =>
              selectedDate' = Some(appCall.date)]_vars

\* goToPrevDay from Monday 2025-12-22, where goToNextDay had led from the
\* Friday, selected the Friday again
C39_Witness ==
    /\ appCall = [op |-> "goToPrevDay", date |-> <<2025, 12, 22>>,
                  result |-> Some(<<2025, 12, 19>>)]
    /\ selectedDate = Some(<<2025, 12, 19>>)
    /\ datePickerValue = selectedDate
    /\ currentViewMode = "date-select"

====
